---- MODULE Spec2Model ----
(***************************************************************************)
(* Turn orchestration of ai-chess: the game loops of game/game-loop.ts     *)
(* (humanVsAIGame, aiVsAIGame), the move extraction and human prompt they  *)
(* use, the GameEngine wrapper of game/game-engine.ts and the make-move    *)
(* tool of mastra/tools/make-move.ts that the agent calls on the shared    *)
(* game while generate is in flight.                                       *)
(*                                                                         *)
(* Strings are sequences of one-character strings, so that the regular    *)
(* expression of extractMoveFromResponse, trim() and toLowerCase() are     *)
(* computed character by character.                                        *)
(*                                                                         *)
(* chess.js is an external library.  The model keeps its contract: the    *)
(* position is the move history, the side to move is the parity of the     *)
(* history, moves() is a function of the position, move(san) compares the  *)
(* SAN stripped of its decorations and either applies a legal move or     *)
(* throws leaving the position as it was.  The legal moves come from a    *)
(* fixed table of SAN strings (ValidMovesTable).                           *)
(*                                                                         *)
(* Beside the loops of game/game-loop.ts (Spec, SpecExtract) the module    *)
(* holds the later loops of unnamed/part_007 (SpecTui), the quit           *)
(* confirmation of ui/board-renderer.ts (SpecKeys) and two sessions that   *)
(* share the gameState singleton of unnamed/part_008 (SpecSessions).       *)
(*                                                                         *)
(* The GameEngine is also studied on its own, on a chess.js kept square by *)
(* square with a small book of lines for its moves: its id, its outcome,  *)
(* its analysis and the read-only tools (SpecEngine), and detectGamePhase  *)
(* over every move number and piece count (SpecPhase).  SpecCli is the     *)
(* validation of the play command of index.ts, SpecMemory the memory keys  *)
(* of the games of one process.                                            *)
(*                                                                         *)
(* SpecPersist is the memory log of utils/memory-persistence.ts with the   *)
(* logger of unnamed/part_009, SpecTextbox the humanVsAIGame of            *)
(* unnamed/part_005 whose prompt is a textbox that can be quit, SpecPrompt *)
(* the prompt of unnamed/part_007 under the key handlers of                *)
(* ui/board-renderer.ts.                                                   *)
(***************************************************************************)
EXTENDS Integers, Sequences, FiniteSets, TLC

\* ------------------------------------------------------------------ bounds
\* Ply at which the draw rule (fifty-move) ends the game.
MaxPly == 4
\* Tool calls (make-move) the agent makes within one generate.
MaxToolCalls == 1
\* Words in one agent response text.
MaxWords == 2
\* Counted re-prompts of the human (the counter saturates, the prompt stays).
MaxRetries == 2
\* Quit confirmations open at once (each Ctrl+C, Q or ESC opens one more).
MaxConfirms == 2
\* Moves made on the engine on its own since its position was set up.
MaxEnginePly == 8
\* Game ids generated for one engine: the constructor's and those of reset.
MaxGameIds == 2
\* Games begun in the sessions of one process.
MaxGames == 3
\* Full-move numbers and queens of the positions whose phase is detected.
MaxMoveNumber == 12
MaxQueens == 2
\* Plies of a game whose memory keys are followed.
MaxMemoryPly == 2
\* Calls of saveWorkingMemory and appendMemorySummary in one run.
MaxPersistCalls == 2
\* Milliseconds the clock advances in one run.
MaxClock == 2
\* Characters in the input buffer of the move prompt.
MaxBuffer == 2

\* ------------------------------------------------------------- characters
Null == <<>>

PieceChars == {"N", "B", "R", "Q", "K"}
FileChars == {"a", "b", "c", "d", "e", "f", "g", "h"}
RankChars == {"1", "2", "3", "4", "5", "6", "7", "8"}
PromoChars == {"N", "B", "R", "Q"}
SuffixChars == {"+", "#"}
OtherLetters == {"i", "k", "l", "m", "o", "q", "s", "t", "u", "v", "x", "y", "z",
                 "I", "M", "O", "T", "U", "V", "_"}

\* \w of the regular expression: letters, digits, underscore.
WordChars == PieceChars \cup FileChars \cup RankChars \cup OtherLetters

\* The character at index i of s, "" outside the string.
At(s, i) == IF i >= 1 /\ i <= Len(s) THEN s[i] ELSE ""

\* \b holds between index i-1 and index i.
Boundary(s, i) == (At(s, i - 1) \in WordChars) # (At(s, i) \in WordChars)

\* ---------------------------------------------------------- SAN constants
E4 == <<"e", "4">>
E5 == <<"e", "5">>
NF3 == <<"N", "f", "3">>
NF6 == <<"N", "f", "6">>
EXD5 == <<"e", "x", "d", "5">>
NXE4 == <<"N", "x", "e", "4">>
QH5CHECK == <<"Q", "h", "5", "+">>
QXF7MATE == <<"Q", "x", "f", "7", "#">>
CASTLE == <<"O", "-", "O">>
LONGCASTLE == <<"O", "-", "O", "-", "O">>
PROMO == <<"b", "1", "=", "Q">>

\* -------------------------------------------------------- string helpers
Lower(c) ==
    CASE c = "Q" -> "q" [] c = "U" -> "u" [] c = "I" -> "i" [] c = "T" -> "t"
      [] c = "M" -> "m" [] c = "O" -> "o" [] c = "V" -> "v" [] c = "N" -> "n"
      [] c = "B" -> "b" [] c = "R" -> "r" [] c = "K" -> "k" [] OTHER -> c

\* String.prototype.toLowerCase
toLowerCase(s) == [i \in 1..Len(s) |-> Lower(s[i])]

\* The characters String.prototype.trim removes at both ends.
Whitespace == {" ", "\t", "\r", "\n"}

RECURSIVE TrimLeft(_)
TrimLeft(s) == IF Len(s) > 0 /\ Head(s) \in Whitespace THEN TrimLeft(Tail(s)) ELSE s

RECURSIVE TrimRight(_)
TrimRight(s) ==
    IF Len(s) > 0 /\ s[Len(s)] \in Whitespace THEN TrimRight(SubSeq(s, 1, Len(s) - 1)) ELSE s

\* String.prototype.trim
trim(s) == TrimRight(TrimLeft(s))

\* ------------------------------------------------ extractMoveFromResponse
\* The elements of the first alternative of movePattern, in order:
\*   [NBRQK]? [a-h]? [1-8]? x? [a-h] [1-8] (?:=[NBRQ])? [+#]?
ElemClass ==
    <<PieceChars, FileChars, RankChars, {"x"}, FileChars, RankChars, {"="}, SuffixChars>>
ElemOptional == <<TRUE, TRUE, TRUE, TRUE, FALSE, FALSE, TRUE, TRUE>>
PromoElem == 7
LastElem == 8

\* Backtracking match of elements k.. at index j, closed by \b.  The value is
\* the index after the match, or 0 when there is none.  An optional element
\* is greedy: it is taken first and skipped when the rest then fails.
RECURSIVE SanFrom(_, _, _)
SanFrom(s, j, k) ==
    IF k > LastElem THEN (IF Boundary(s, j) THEN j ELSE 0)
    ELSE IF k = PromoElem
    THEN LET take == IF At(s, j) = "=" /\ At(s, j + 1) \in PromoChars
                     THEN SanFrom(s, j + 2, k + 1) ELSE 0
         IN  IF take # 0 THEN take ELSE SanFrom(s, j, k + 1)
    ELSE LET take == IF At(s, j) \in ElemClass[k] THEN SanFrom(s, j + 1, k + 1) ELSE 0
         IN  IF ElemOptional[k]
             THEN (IF take # 0 THEN take ELSE SanFrom(s, j, k + 1))
             ELSE take

\* The second alternative: O-O(?:-O)? closed by \b.
CastleFrom(s, j) ==
    IF At(s, j) = "O" /\ At(s, j + 1) = "-" /\ At(s, j + 2) = "O"
    THEN IF At(s, j + 3) = "-" /\ At(s, j + 4) = "O" /\ Boundary(s, j + 5)
         THEN j + 5
         ELSE (IF Boundary(s, j + 3) THEN j + 3 ELSE 0)
    ELSE 0

\* One attempt of the whole pattern at index i: \b( alt1 | alt2 )\b.
MatchAt(s, i) ==
    IF ~Boundary(s, i) THEN 0
    ELSE LET a == SanFrom(s, i, 1) IN IF a # 0 THEN a ELSE CastleFrom(s, i)

\* String.prototype.match with the g flag: the non-overlapping matches, left
\* to right.
RECURSIVE ScanFrom(_, _)
ScanFrom(s, i) ==
    IF i > Len(s) THEN <<>>
    ELSE LET e == MatchAt(s, i)
         IN  IF e # 0 THEN <<SubSeq(s, i, e - 1)>> \o ScanFrom(s, e)
             ELSE ScanFrom(s, i + 1)

FirstMatch(matches) == matches[1]

LastMatch(matches) == matches[Len(matches)]

extractMoveFromResponse(response) ==
    LET matches == ScanFrom(response, 1)
    IN  IF Len(matches) > 0 THEN LastMatch(matches) ELSE Null

\* ------------------------------------------------------------- GameEngine
\* chess.js strippedSan: the SAN without '=' and without a trailing + or #.
RECURSIVE RemoveEquals(_)
RemoveEquals(s) ==
    IF s = <<>> THEN <<>>
    ELSE IF Head(s) = "=" THEN Tail(s) ELSE <<Head(s)>> \o RemoveEquals(Tail(s))

StrippedSan(s) ==
    LET t == RemoveEquals(s)
    IN  IF Len(t) > 0 /\ t[Len(t)] \in SuffixChars THEN SubSeq(t, 1, Len(t) - 1) ELSE t

\* The engine's state: chess.js keeps the side to move and the history.
NewGame == [turn |-> "w", history |-> <<>>]

Swap(t) == IF t = "w" THEN "b" ELSE "w"

isCheckmate(g) ==
    Len(g.history) > 0 /\ g.history[Len(g.history)][Len(g.history[Len(g.history)])] = "#"

\* The draw rule: it holds from ply MaxPly on, and moves stay legal.
isDraw(g) == Len(g.history) >= MaxPly

isGameOver(g) == isCheckmate(g) \/ isDraw(g)

getTurn(g) == IF g.turn = "w" THEN "white" ELSE "black"

\* chess.moves() of a position: the SAN strings of the side to move.
ValidMovesTable(g) ==
    IF isCheckmate(g) THEN {}
    ELSE IF g.turn = "w"
    THEN (IF Len(g.history) < 2 THEN {E4, NF3} ELSE {CASTLE, QH5CHECK, QXF7MATE})
    ELSE (IF Len(g.history) < 2 THEN {E5, NF6} ELSE {CASTLE, NXE4, PROMO})

getValidMoves(g) == ValidMovesTable(g)

\* The legal moves chess.move(move) accepts for the string: the ones whose
\* stripped SAN equals the stripped string.
MoveFromSan(g, move) == {l \in getValidMoves(g) : StrippedSan(l) = StrippedSan(move)}

MakeMoveHistoryOnly(g, l) == [g EXCEPT !.history = Append(g.history, l)]

\* chess.move of a legal move: the move joins the history, the turn swaps.
MakeMove(g, l) == [turn |-> Swap(g.turn), history |-> Append(g.history, l)]

executeMoveKeepsRefused(g, move) ==
    IF MoveFromSan(g, move) # {}
    THEN [success |-> TRUE, game |-> MakeMove(g, CHOOSE l \in MoveFromSan(g, move) : TRUE)]
    ELSE [success |-> FALSE, game |-> [g EXCEPT !.history = Append(g.history, move)]]

executeMoveFlipsOnFailure(g, move) ==
    IF MoveFromSan(g, move) # {}
    THEN [success |-> TRUE, game |-> MakeMove(g, CHOOSE l \in MoveFromSan(g, move) : TRUE)]
    ELSE [success |-> FALSE, game |-> [g EXCEPT !.turn = Swap(g.turn)]]

\* chess.move throws (or returns null) for a string that matches no legal
\* move, and the position is then as before.
executeMove(g, move) ==
    IF MoveFromSan(g, move) # {}
    THEN [success |-> TRUE, game |-> MakeMove(g, CHOOSE l \in MoveFromSan(g, move) : TRUE)]
    ELSE [success |-> FALSE, game |-> g]

getLastMove(g) == IF Len(g.history) > 0 THEN g.history[Len(g.history)] ELSE Null

\* chess.moveNumber() of a game begun at the standard position: the full-move
\* number, 1 at the start and one more after each move of black.
getMoveNumber(g) == 1 + Len(g.history) \div 2

\* What this.chess answers about the position of the loop's engine.  The
\* draw rule of the table is the only draw: no stalemate, repetition or bare
\* kings within MaxPly plies of it.
Answers(g) ==
    [turn |-> g.turn,
     isCheckmate |-> isCheckmate(g),
     isStalemate |-> FALSE,
     isThreefoldRepetition |-> FALSE,
     isInsufficientMaterial |-> FALSE,
     isDraw |-> isDraw(g),
     isGameOver |-> isGameOver(g)]

\* getWinner(), a being the answers of this.chess.
getWinner(a) ==
    IF ~a.isGameOver THEN "null"
    ELSE IF a.isCheckmate THEN (IF a.turn = "w" THEN "black" ELSE "white")
    ELSE "draw"

getGameOverReasonNoFiftyMoveRule(a) ==
    IF a.isCheckmate THEN "checkmate"
    ELSE IF a.isStalemate THEN "stalemate"
    ELSE IF a.isThreefoldRepetition THEN "threefold-repetition"
    ELSE IF a.isInsufficientMaterial THEN "insufficient-material"
    ELSE "unknown"

\* getGameOverReason(), a being the answers of this.chess.
getGameOverReason(a) ==
    IF a.isCheckmate THEN "checkmate"
    ELSE IF a.isStalemate THEN "stalemate"
    ELSE IF a.isThreefoldRepetition THEN "threefold-repetition"
    ELSE IF a.isInsufficientMaterial THEN "insufficient-material"
    ELSE IF a.isDraw THEN "fifty-move-rule"
    ELSE "unknown"

\* No GameResult built, no Result header set.
NoResult == [winner |-> "none", reason |-> "none", moveCount |-> 0]

\* The GameResult of game-loop.ts: winner and reason from the engine, and
\* moveCount: game.getMoveNumber().
GameResultOf(g) ==
    [winner |-> getWinner(Answers(g)),
     reason |-> getGameOverReason(Answers(g)),
     moveCount |-> getMoveNumber(g)]

resultStringSwapped(winner) ==
    IF winner = "white" THEN "0-1" ELSE IF winner = "black" THEN "1-0" ELSE "1/2-1/2"

\* saveGame: the Result header written for result.winner.
resultString(winner) ==
    IF winner = "white" THEN "1-0" ELSE IF winner = "black" THEN "0-1" ELSE "1/2-1/2"

\* ------------------------------------------- chess.js, square by square
\* The engine on its own (SpecEngine, SpecPhase): the board that
\* chess.board() returns, row 1 being rank 8 (rankIndex 0) and column 1 file
\* a (fileIndex 0), the counters of the FEN, and the moves of a small book
\* of lines in place of the move generator.
Empty == [color |-> "-", type |-> "-"]

Piece(color, type) == [color |-> color, type |-> type]

FileLetters == <<"a", "b", "c", "d", "e", "f", "g", "h">>
RankDigits == <<"1", "2", "3", "4", "5", "6", "7", "8">>

IndexIn(seq, c) == CHOOSE i \in 1..Len(seq) : seq[i] = c

\* String.fromCharCode(97 + fileIndex) + (8 - rankIndex)
squareName(rankIndex, fileIndex) == <<FileLetters[fileIndex + 1], RankDigits[8 - rankIndex]>>

RowOf(sq) == 9 - IndexIn(RankDigits, sq[2])
ColumnOf(sq) == IndexIn(FileLetters, sq[1])

PieceAt(board, sq) == board[RowOf(sq)][ColumnOf(sq)]

Put(board, sq, piece) == [board EXCEPT ![RowOf(sq)][ColumnOf(sq)] = piece]

EmptyRow == [f \in 1..8 |-> Empty]
EmptyBoard == [r \in 1..8 |-> EmptyRow]
BackRow(color) ==
    <<Piece(color, "r"), Piece(color, "n"), Piece(color, "b"), Piece(color, "q"),
      Piece(color, "k"), Piece(color, "b"), Piece(color, "n"), Piece(color, "r")>>
PawnRow(color) == [f \in 1..8 |-> Piece(color, "p")]

\* The board of the standard starting position.
StartBoard ==
    <<BackRow("b"), PawnRow("b"), EmptyRow, EmptyRow, EmptyRow, EmptyRow,
      PawnRow("w"), BackRow("w")>>

RECURSIVE PutAll(_, _)
PutAll(board, placed) ==
    IF placed = <<>> THEN board
    ELSE PutAll(Put(board, placed[1][1], placed[1][2]), Tail(placed))

\* King and queen against king, white to move: Qg6 stalemates, Qg7 mates.
QueenEndingBoard ==
    PutAll(EmptyBoard, << <<(<<"h", "8">>), Piece("b", "k")>>,
                          <<(<<"f", "7">>), Piece("w", "k")>>,
                          <<(<<"g", "1">>), Piece("w", "q")>> >>)

\* King and rook against king.
RookEndingBoard ==
    PutAll(EmptyBoard, << <<(<<"e", "5">>), Piece("b", "k")>>,
                          <<(<<"e", "1">>), Piece("w", "k")>>,
                          <<(<<"a", "1">>), Piece("w", "r")>> >>)

\* King against king.
BareKingsBoard ==
    PutAll(EmptyBoard, << <<(<<"e", "5">>), Piece("b", "k")>>,
                          <<(<<"e", "1">>), Piece("w", "k")>> >>)

\* What chess.js compares to count repetitions.
PositionKey(board, turn) == [board |-> board, turn |-> turn]

\* A position set up from a FEN: the board, the side to move, the full-move
\* number and the half-move clock; no history.
Setup(name, board, turn, moveNumber, halfMoves) ==
    [setup |-> name, board |-> board, turn |-> turn, history |-> <<>>,
     moveNumber |-> moveNumber, halfMoves |-> halfMoves, check |-> FALSE,
     positions |-> <<PositionKey(board, turn)>>]

\* new Chess(): the standard starting position.
NewChess == Setup("start", StartBoard, "w", 1, 0)

SetupNames == {"start", "shuffled", "queen-ending", "rook-ending", "bare-kings"}

\* The positions a PGN with a FEN header sets up.  "shuffled" is the
\* starting array after ten moves of the knights out and back.
SetupOf(name) ==
    CASE name = "start" -> NewChess
      [] name = "shuffled" -> Setup(name, StartBoard, "w", 11, 20)
      [] name = "queen-ending" -> Setup(name, QueenEndingBoard, "w", 70, 10)
      [] name = "rook-ending" -> Setup(name, RookEndingBoard, "w", 80, 99)
      [] OTHER -> Setup(name, BareKingsBoard, "w", 60, 0)

\* A move of the book: its SAN and its squares.
BookMove(san, from, to) == [san |-> san, from |-> from, to |-> to]

F3 == <<"f", "3">>
G4 == <<"g", "4">>
D5 == <<"d", "5">>
NG1 == <<"N", "g", "1">>
NG8 == <<"N", "g", "8">>
QH4MATE == <<"Q", "h", "4", "#">>
QXD5 == <<"Q", "x", "d", "5">>
QG6 == <<"Q", "g", "6">>
QG7MATE == <<"Q", "g", "7", "#">>
RA2 == <<"R", "a", "2">>
RA1 == <<"R", "a", "1">>
KD2 == <<"K", "d", "2">>
KE1 == <<"K", "e", "1">>
KD5 == <<"K", "d", "5">>
KE5 == <<"K", "e", "5">>

\* The knights of the king's side go out and back: the array repeats.
KnightShuffle ==
    <<BookMove(NF3, <<"g", "1">>, <<"f", "3">>), BookMove(NF6, <<"g", "8">>, <<"f", "6">>),
      BookMove(NG1, <<"f", "3">>, <<"g", "1">>), BookMove(NG8, <<"f", "6">>, <<"g", "8">>)>>

\* The lines of the book: the position they start from, their first moves,
\* and the moves they then repeat for ever (none after mate or stalemate).
Lines ==
    {[setup |-> "start", opening |-> <<>>, cycle |-> KnightShuffle],
     [setup |-> "start",
      opening |-> <<BookMove(E4, <<"e", "2">>, <<"e", "4">>),
                    BookMove(E5, <<"e", "7">>, <<"e", "5">>)>>,
      cycle |-> KnightShuffle],
     [setup |-> "start",
      opening |-> <<BookMove(E4, <<"e", "2">>, <<"e", "4">>),
                    BookMove(D5, <<"d", "7">>, <<"d", "5">>),
                    BookMove(EXD5, <<"e", "4">>, <<"d", "5">>),
                    BookMove(QXD5, <<"d", "8">>, <<"d", "5">>)>>,
      cycle |-> KnightShuffle],
     [setup |-> "start",
      opening |-> <<BookMove(F3, <<"f", "2">>, <<"f", "3">>),
                    BookMove(E5, <<"e", "7">>, <<"e", "5">>),
                    BookMove(G4, <<"g", "2">>, <<"g", "4">>),
                    BookMove(QH4MATE, <<"d", "8">>, <<"h", "4">>)>>,
      cycle |-> <<>>],
     [setup |-> "shuffled", opening |-> <<>>, cycle |-> KnightShuffle],
     [setup |-> "queen-ending",
      opening |-> <<BookMove(QG6, <<"g", "1">>, <<"g", "6">>)>>,
      cycle |-> <<>>],
     [setup |-> "queen-ending",
      opening |-> <<BookMove(QG7MATE, <<"g", "1">>, <<"g", "7">>)>>,
      cycle |-> <<>>],
     [setup |-> "rook-ending", opening |-> <<>>,
      cycle |-> <<BookMove(RA2, <<"a", "1">>, <<"a", "2">>),
                  BookMove(KD5, <<"e", "5">>, <<"d", "5">>),
                  BookMove(RA1, <<"a", "2">>, <<"a", "1">>),
                  BookMove(KE5, <<"d", "5">>, <<"e", "5">>)>>],
     [setup |-> "bare-kings", opening |-> <<>>,
      cycle |-> <<BookMove(KD2, <<"e", "1">>, <<"d", "2">>),
                  BookMove(KD5, <<"e", "5">>, <<"d", "5">>),
                  BookMove(KE1, <<"d", "2">>, <<"e", "1">>),
                  BookMove(KE5, <<"d", "5">>, <<"e", "5">>)>>]}

\* Whether the line has an i-th move, and that move.
HasMove(line, i) == i <= Len(line.opening) \/ line.cycle # <<>>

LineMove(line, i) ==
    IF i <= Len(line.opening) THEN line.opening[i]
    ELSE line.cycle[((i - Len(line.opening) - 1) % Len(line.cycle)) + 1]

\* The lines the game has followed so far.
LinesOf(p) ==
    {line \in Lines :
        /\ line.setup = p.setup
        /\ \A i \in 1..Len(p.history) : HasMove(line, i) /\ LineMove(line, i).san = p.history[i]}

\* chess.moves({ verbose: true }): the next moves of those lines.
VerboseMoves(p) ==
    {LineMove(line, Len(p.history) + 1) :
        line \in {l \in LinesOf(p) : HasMove(l, Len(p.history) + 1)}}

\* chess.moves()
ChessMoves(p) == {m.san : m \in VerboseMoves(p)}

LastChar(s) == At(s, Len(s))

\* chess.move(m) of a legal move: the piece goes to its square and takes
\* what stands there, the side to move swaps, the full-move number grows
\* after a move of black, the half-move clock restarts on a pawn move or a
\* capture, and the position joins the ones already seen.
ChessMove(p, m) ==
    LET piece == PieceAt(p.board, m.from)
        board == Put(Put(p.board, m.from, Empty), m.to, piece)
        turn == Swap(p.turn)
    IN  [setup |-> p.setup,
         board |-> board,
         turn |-> turn,
         history |-> Append(p.history, m.san),
         moveNumber |-> IF p.turn = "b" THEN p.moveNumber + 1 ELSE p.moveNumber,
         halfMoves |-> IF piece.type = "p" \/ PieceAt(p.board, m.to) # Empty
                       THEN 0 ELSE p.halfMoves + 1,
         check |-> LastChar(m.san) \in SuffixChars,
         positions |-> Append(p.positions, PositionKey(board, turn))]

\* The pieces on the board.
PiecesOn(board) == {<<r, f>> \in (1..8) \X (1..8) : board[r][f] # Empty}

\* What this.chess answers about a position of the engine on its own: check
\* from the last move, mate and stalemate when no move is left, bare kings
\* (or a king with one bishop or knight), the position seen three times, the
\* half-move clock at 100; isDraw() is any of the last four but mate, and
\* isGameOver() mate, stalemate or a draw.
ChessAnswers(p) ==
    LET noMoves == VerboseMoves(p) = {}
        insufficient ==
            \/ Cardinality(PiecesOn(p.board)) = 2
            \/ /\ Cardinality(PiecesOn(p.board)) = 3
               /\ \E sq \in PiecesOn(p.board) : p.board[sq[1]][sq[2]].type \in {"b", "n"}
        threefold ==
            Cardinality({i \in 1..Len(p.positions) :
                            p.positions[i] = PositionKey(p.board, p.turn)}) >= 3
        draw == p.halfMoves >= 100 \/ (~p.check /\ noMoves) \/ insufficient \/ threefold
    IN  [turn |-> p.turn,
         isCheck |-> p.check,
         isCheckmate |-> p.check /\ noMoves,
         isStalemate |-> ~p.check /\ noMoves,
         isThreefoldRepetition |-> threefold,
         isInsufficientMaterial |-> insufficient,
         isDraw |-> draw,
         isGameOver |-> (p.check /\ noMoves) \/ draw]

\* ------------------------------------------------- analyzePosition
PIECE_VALUES == [p |-> 1, n |-> 3, b |-> 3, r |-> 5, q |-> 9, k |-> 0]

CENTER_SQUARES == {<<"d", "4">>, <<"d", "5">>, <<"e", "4">>, <<"e", "5">>}

EXTENDED_CENTER ==
    {<<"c", "3">>, <<"c", "4">>, <<"c", "5">>, <<"c", "6">>, <<"d", "3">>, <<"d", "6">>,
     <<"e", "3">>, <<"e", "6">>, <<"f", "3">>, <<"f", "4">>, <<"f", "5">>, <<"f", "6">>}

\* The squares in the order of board.forEach(row => row.forEach(...)).
SquareIndexes == [i \in 1..64 |-> <<(i - 1) \div 8, (i - 1) % 8>>]

RECURSIVE Sum(_)
\* The sum of a sequence of numbers.
Sum(values) == IF values = <<>> THEN 0 ELSE Head(values) + Sum(Tail(values))

Square(board, rankIndex, fileIndex) == board[rankIndex + 1][fileIndex + 1]

isBackRankOfTheOther(isWhite, rankIndex) == IF isWhite THEN rankIndex = 0 ELSE rankIndex = 7

\* const isBackRank = isWhite ? rankIndex === 7 : rankIndex === 0
isBackRank(isWhite, rankIndex) == IF isWhite THEN rankIndex = 7 ELSE rankIndex = 0

\* The material of one colour.
Material(board, color) ==
    LET Term(rankIndex, fileIndex) ==
            LET square == Square(board, rankIndex, fileIndex)
            IN  IF square # Empty /\ square.color = color
                THEN PIECE_VALUES[square.type] ELSE 0
    IN  Sum([i \in 1..64 |-> Term(SquareIndexes[i][1], SquareIndexes[i][2])])

\* The centre control of one colour: 2 for a piece on a centre square, 1
\* for a piece on a square of the extended centre.
CenterControl(board, color) ==
    LET Term(rankIndex, fileIndex) ==
            LET square == Square(board, rankIndex, fileIndex)
            IN  IF square # Empty /\ square.color = color
                THEN (IF squareName(rankIndex, fileIndex) \in CENTER_SQUARES THEN 2
                      ELSE IF squareName(rankIndex, fileIndex) \in EXTENDED_CENTER THEN 1
                      ELSE 0)
                ELSE 0
    IN  Sum([i \in 1..64 |-> Term(SquareIndexes[i][1], SquareIndexes[i][2])])

\* The development of one colour: its pieces, pawns and king apart, that
\* are off their back rank.
Development(board, color) ==
    LET Term(rankIndex, fileIndex) ==
            LET square == Square(board, rankIndex, fileIndex)
            IN  IF /\ square # Empty
                   /\ square.color = color
                   /\ square.type # "p"
                   /\ square.type # "k"
                   /\ ~isBackRank(color = "w", rankIndex)
                THEN 1 ELSE 0
    IN  Sum([i \in 1..64 |-> Term(SquareIndexes[i][1], SquareIndexes[i][2])])

\* evaluateKingSafety for one colour: 3 for a king on its first two ranks,
\* less 5 for the side to move when it is in check.
KingSafety(p, color) ==
    LET Term(rankIndex, fileIndex) ==
            LET square == Square(p.board, rankIndex, fileIndex)
                kingRank == IF color = "w" THEN 7 - rankIndex ELSE rankIndex
            IN  IF square # Empty /\ square.color = color /\ square.type = "k"
                   /\ kingRank <= 1
                THEN 3 ELSE 0
    IN  Sum([i \in 1..64 |-> Term(SquareIndexes[i][1], SquareIndexes[i][2])])
        - (IF p.check /\ p.turn = color THEN 5 ELSE 0)

\* countPieces()
countPieces(board) ==
    LET Piece1(rankIndex, fileIndex) ==
            IF Square(board, rankIndex, fileIndex) # Empty THEN 1 ELSE 0
        Queen1(rankIndex, fileIndex) ==
            IF Square(board, rankIndex, fileIndex) # Empty
               /\ Square(board, rankIndex, fileIndex).type = "q" THEN 1 ELSE 0
    IN  [totalPieces |-> Sum([i \in 1..64 |-> Piece1(SquareIndexes[i][1], SquareIndexes[i][2])]),
         queens |-> Sum([i \in 1..64 |-> Queen1(SquareIndexes[i][1], SquareIndexes[i][2])])]

detectGamePhaseQueensAlone(moveNumber, analysis) ==
    IF moveNumber <= 10 THEN "opening"
    ELSE IF analysis.totalPieces <= 12 \/ analysis.queens = 0 THEN "endgame"
    ELSE "middlegame"

\* detectGamePhase(), with the move number and the count it reads.
detectGamePhase(moveNumber, analysis) ==
    IF moveNumber <= 10 THEN "opening"
    ELSE IF analysis.totalPieces <= 12
            \/ (analysis.queens = 0 /\ analysis.totalPieces <= 16) THEN "endgame"
    ELSE "middlegame"

\* detectThreats(): the check of the side to move, and the captures on offer
\* when one of them takes a piece worth 3 or more.
detectThreats(p) ==
    LET capturingMoves == {m \in VerboseMoves(p) : PieceAt(p.board, m.to) # Empty}
        highValueCaptures ==
            {m \in capturingMoves : PIECE_VALUES[PieceAt(p.board, m.to).type] >= 3}
    IN  (IF p.check THEN {[threat |-> "check", of |-> p.turn]} ELSE {})
        \cup (IF highValueCaptures # {}
              THEN {[threat |-> "captures", of |-> p.turn]} ELSE {})

\* analyzePosition()
analyzePosition(p) ==
    [materialBalance |-> Material(p.board, "w") - Material(p.board, "b"),
     centerControl |-> [white |-> CenterControl(p.board, "w"),
                        black |-> CenterControl(p.board, "b")],
     developmentScore |-> [white |-> Development(p.board, "w"),
                           black |-> Development(p.board, "b")],
     kingSafety |-> [white |-> KingSafety(p, "w"), black |-> KingSafety(p, "b")],
     phase |-> detectGamePhase(p.moveNumber, countPieces(p.board)),
     threats |-> detectThreats(p)]

\* No analysis returned yet.
NoAnalysis ==
    [materialBalance |-> 0, centerControl |-> [white |-> 0, black |-> 0],
     developmentScore |-> [white |-> 0, black |-> 0],
     kingSafety |-> [white |-> 0, black |-> 0], phase |-> "none", threats |-> {}]

\* ------------------------------------------------ the GameEngine on its own
\* One GameEngine, registered with gameState, and the calls made on it: its
\* own methods and the read-only tools of mastra/tools.
NoHeaders == [Result |-> ""]

\* generateGameId(): `game-${Date.now()}-${random}`, a string no earlier
\* call returned; issued counts the calls so far.
generateGameId(issued) == issued + 1

\* new GameEngine()
NewEngine(issued) ==
    [gameId |-> generateGameId(issued), chess |-> NewChess, headers |-> NoHeaders]

getGameId(e) == e.gameId

\* The book moves chess.move(move) accepts for the string.
ChessMoveFromSan(p, move) == {m \in VerboseMoves(p) : StrippedSan(m.san) = StrippedSan(move)}

\* executeMove(move) on the engine: the position after it and what it returns.
engineExecuteMove(e, move) ==
    IF ChessMoveFromSan(e.chess, move) # {}
    THEN [success |-> TRUE,
          engine |-> [e EXCEPT !.chess =
                         ChessMove(e.chess, CHOOSE m \in ChessMoveFromSan(e.chess, move) : TRUE)]]
    ELSE [success |-> FALSE, engine |-> e]

\* A PGN: the position its FEN header sets up and the moves that follow.
Pgn(setup, moves) == [setup |-> setup, moves |-> moves]

Pgns ==
    {Pgn(name, <<>>) : name \in SetupNames}
    \cup {Pgn("start", <<F3, E5, G4, QH4MATE>>), Pgn("start", <<E4, E4>>),
          Pgn("rook-ending", <<RA2>>)}

RECURSIVE Replay(_, _)
\* chess.loadPgn after the headers: the moves one by one, up to the first
\* that chess.move refuses.
Replay(p, moves) ==
    IF moves = <<>> THEN [ok |-> TRUE, chess |-> p]
    ELSE IF ChessMoveFromSan(p, moves[1]) = {} THEN [ok |-> FALSE, chess |-> p]
    ELSE Replay(ChessMove(p, CHOOSE m \in ChessMoveFromSan(p, moves[1]) : TRUE), Tail(moves))

\* reset(): this.chess.reset(); this.gameId = this.generateGameId()
reset(e, issued) ==
    [gameId |-> generateGameId(issued), chess |-> NewChess, headers |-> NoHeaders]

\* The calls that only read the engine.
ReadOnlyCalls == {"analyze-position", "get-board-state", "get-valid-moves", "get-game-history"}

\* ------------------------------------------------------------------ inputs
OKWORD == <<"o", "k">>
QUIT == <<"q", "u", "i", "t">>
QUITCAPS == <<" ", "Q", "u", "i", "t">>
MOVES == <<"m", "o", "v", "e", "s">>
QH5 == <<"Q", "h", "5">>

AllSan ==
    {E4, NF3, E5, NF6, CASTLE, LONGCASTLE, QH5CHECK, EXD5, QXF7MATE, NXE4, PROMO}

\* What the human may type at the prompt.
HumanInputs ==
    AllSan \cup {<<" ">> \o E4 \o <<" ">>, <<" ">> \o E5, QH5, OKWORD, QUIT, QUITCAPS, MOVES}

\* The strings the agent may pass to the make-move tool.
ToolInputs == AllSan \cup {QH5, OKWORD}

\* The words of an agent's response text.
Vocabulary == {E4, NF3, NXE4, QH5CHECK, QXF7MATE, CASTLE, PROMO, OKWORD}

RECURSIVE Join(_)
Join(ws) ==
    IF ws = <<>> THEN <<>>
    ELSE IF Len(ws) = 1 THEN ws[1]
    ELSE ws[1] \o <<" ">> \o Join(Tail(ws))

\* The response texts: up to MaxWords words separated by blanks.
Texts == {Join(ws) : ws \in UNION {[1..n -> Vocabulary] : n \in 0..MaxWords}}

\* The texts generate returns in the game loops' specification: every
\* candidate extractMoveFromResponse can produce from Texts is produced from
\* one of them.
LoopTexts == {Null} \cup Vocabulary

\* The blobs an agent may write to its working memory.
MemoryBlobs == {"", "plan"}

Colors == {"white", "black"}

\* ------------------------------------------------------------------- state
VARIABLES
    mode,           \* "human-ai" (humanVsAIGame) or "ai-ai" (aiVsAIGame)
    playerColor,    \* the human's colour, "none" in aiVsAIGame
    game,           \* the GameEngine shared through gameState
    pc,             \* where the game function is
    currentTurn,    \* the loop's currentTurn / currentColor of this iteration
    validMoves,     \* the list given to promptForMove
    lastInput,      \* the line last read by the prompt
    retries,        \* re-prompts of this human turn (saturates at MaxRetries)
    toolCalls,      \* make-move calls of the generate in flight
    responseText,   \* response.text || ''
    workingMemory,  \* the loop's workingMemory of this iteration
    memStore,       \* the working memory stored for each agent
    turnStartLen,   \* length of the history when this iteration began
    resolvedFrom,   \* the game as it was when the loop began to resolve a move
    outcome,        \* how the loop resolved the last turn
    applied,        \* successful executeMove calls so far
    saved,          \* saveGame calls
    logged,         \* the logError contexts of this iteration
    message,        \* what the loop printed about the move of this iteration
    aiWorkingMemory,     \* part_007 humanVsAIGame: the memory kept across turns
    whiteWorkingMemory,  \* part_007 aiVsAIGame: the memory kept for white
    blackWorkingMemory,  \* part_007 aiVsAIGame: the memory kept for black
    screen,         \* board-renderer.ts: the blessed screen exists
    statusContent,  \* what statusBox shows: "status" or the quit "prompt"
    confirmHandlers,\* the confirmHandler listeners, each with its originalContent
    engines,        \* the GameEngine of each session of the process
    currentGame,    \* gameState.currentGame: the session whose engine it is
    toolCaller,     \* the session whose agent made the last tool call
    sessionPc,      \* where each session's aiVsAIGame is
    gameResult,     \* the GameResult the game function built at its end
    resultHeader,   \* the Result header saveGame set on the PGN
    requests,       \* player-move requests awaited and not yet settled
    engine,         \* the GameEngine on its own: its id, its chess, its headers
    firstGameId,    \* the id the constructor of that engine generated
    idsIssued,      \* calls of generateGameId so far
    analysis,       \* what analyzePosition last returned for the position
    lastCall,       \* the call last made on that engine
    returned,       \* what that call returned
    cliOptions,     \* the options given to the play command
    cliPc,          \* where the action of the play command is
    agentsCreated,  \* the agents the game function created, with their model
    memGames,       \* each session's game: its id, its mode, its mover, its keys
    memIssued,      \* game ids generated for the games of the sessions
    keyUsers,       \* who passed which (resourceId, threadId) pair so far
    clock,          \* memory-persistence.ts: the time new Date() reads, in ms
    memoryDir,      \* the memory-logs directory exists
    memoryLog,      \* the appends made to files of memory-logs, in order
    persistCalls,   \* the calls of the two save functions and how each settled
    errorLog,       \* error-logger: the calls of logError and logInfo
    boxPc,          \* part_005 humanVsAIGame: where the function is
    boxScreen,      \* cli-layout: the blessed screen exists
    boxCurrentGame, \* gameState.currentGame is set
    boxGame,        \* the GameEngine of that humanVsAIGame
    boxValidMoves,  \* the list given to its promptForMove
    boxReturn,      \* how that humanVsAIGame returned
    inputBuffer,    \* part_007 promptForMove: inputBuffer
    focused,        \* screen.focused: the "input" box or the "memory" box
    lastKey         \* what the keypress last delivered did to a pending confirmation

heldVars == <<aiWorkingMemory, whiteWorkingMemory, blackWorkingMemory>>

uiVars == <<screen, statusContent, confirmHandlers>>

sessionVars == <<engines, currentGame, toolCaller, sessionPc>>

resultVars == <<gameResult, resultHeader, requests>>

engineVars == <<engine, firstGameId, idsIssued, analysis, lastCall, returned>>

cliVars == <<cliOptions, cliPc, agentsCreated>>

memoryVars == <<memGames, memIssued, keyUsers>>

persistVars == <<clock, memoryDir, memoryLog, persistCalls, errorLog>>

boxVars == <<boxPc, boxScreen, boxCurrentGame, boxGame, boxValidMoves, boxReturn>>

promptVars == <<inputBuffer, focused, lastKey>>

laterVars == <<engineVars, cliVars, memoryVars, persistVars, boxVars, promptVars>>

vars == <<mode, playerColor, game, pc, currentTurn, validMoves, lastInput, retries,
          toolCalls, responseText, workingMemory, memStore, turnStartLen,
          resolvedFrom, outcome, applied, saved, logged, message, heldVars, uiVars,
          sessionVars, resultVars, laterVars>>

aiColor == IF playerColor = "white" THEN "black" ELSE "white"

\* The agent invoked in this iteration: aiAgent, or whiteAgent/blackAgent.
AgentColor == IF mode = "human-ai" THEN aiColor ELSE currentTurn

Count(result) == IF result.success THEN 1 ELSE 0

\* validMoves[Math.floor(Math.random() * validMoves.length)]: any element of
\* the list, undefined when the list is empty.
RandomMoveAnySan(g) == AllSan

RandomMove(g) == IF getValidMoves(g) = {} THEN {Null} ELSE getValidMoves(g)

\* The sessions (games started) of one process.
Sessions == {1, 2}

\* Nothing printed yet about a move of this iteration.
NoMessage == [kind |-> "none", move |-> Null]

\* ----------------------------------------------------- the play command
\* index.ts: the options of `play` are validated one after the other, each
\* failure ending the process with status 1, before the game function (which
\* creates the agents) is called.
MODEL_IDS == {"haiku", "sonnet", "opus"}

\* The property names every object inherits from Object.prototype.
ObjectPrototypeKeys ==
    {"constructor", "toString", "valueOf", "hasOwnProperty", "isPrototypeOf",
     "propertyIsEnumerable", "toLocaleString", "__proto__"}

\* name in MODEL_IDS: true for an own key and for an inherited one.
isValidModelName(name) == name \in MODEL_IDS \cup ObjectPrototypeKeys

\* What --model, --white-model and --black-model are given; "" is the empty
\* string, "undefined" an option that is absent.
ModelOptions == {"haiku", "sonnet", "opus", "gpt-4", "Haiku", "toString", "constructor", ""}
SideModelOptions == {"undefined", "opus", "gpt-4"}
ModeOptions == {"human-ai", "ai-ai", "ai"}
ColorOptions == {"white", "black", "red"}

\* a || b for strings: b when a is empty or absent.
OrElse(a, b) == IF a \in {"", "undefined"} THEN b ELSE a

\* The options of `play` when none is given.
DefaultOptions ==
    [mode |-> "human-ai", color |-> "white", model |-> "haiku",
     whiteModel |-> "undefined", blackModel |-> "undefined"]

\* The command as the game functions see it: not under study.
CliDefault ==
    /\ cliOptions = DefaultOptions
    /\ cliPc = "mode"
    /\ agentsCreated = {}

CliInit ==
    /\ cliOptions \in [mode : ModeOptions, color : ColorOptions, model : ModelOptions,
                       whiteModel : SideModelOptions, blackModel : SideModelOptions]
    /\ cliPc = "mode"
    /\ agentsCreated = {}

\* ------------------------------------------ the keys of the working memory
\* Two games of one process and the (resourceId, threadId) pairs their
\* agent turns pass to generate and to getWorkingMemory.
GameModes == {"human-ai", "ai-ai"}

\* threadId: `game-${game.getGameId()}` in humanVsAIGame.
humanVsAIThreadId(gameId) == <<"game-", gameId>>

aiVsAIThreadIdOfTheGame(currentColor) == <<"ai", "-thread">>

\* threadId: `${currentColor}-thread` in aiVsAIGame.
aiVsAIThreadId(currentColor) == <<currentColor, "-thread">>

\* The pair an agent turn of game g passes, currentColor being the mover.
MemoryKey(g, currentColor) ==
    [resourceId |-> g.gameId,
     threadId |-> IF g.mode = "human-ai" THEN humanVsAIThreadId(g.gameId)
                  ELSE aiVsAIThreadId(currentColor)]

NoKey == [resourceId |-> 0, threadId |-> <<>>]

\* No game started in the session yet.
NoGame ==
    [mode |-> "none", playerColor |-> "none", gameId |-> 0, turn |-> "white",
     plies |-> 0, pc |-> "idle", generateKey |-> NoKey, readKey |-> NoKey]

MemoryInit ==
    /\ memGames = [s \in Sessions |-> NoGame]
    /\ memIssued = 0
    /\ keyUsers = {}

\* memory-persistence.ts as the module is loaded: nothing written yet.
PersistInit ==
    /\ clock = 0
    /\ memoryDir = FALSE
    /\ memoryLog = <<>>
    /\ persistCalls = <<>>
    /\ errorLog = <<>>

\* Before humanVsAIGame of part_005 is called: no screen, no current game.
BoxInit ==
    /\ boxPc = "idle"
    /\ boxScreen = FALSE
    /\ boxCurrentGame = FALSE
    /\ boxGame = NewGame
    /\ boxValidMoves = {}
    /\ boxReturn = "none"

\* Before the first prompt: no buffer, the memory box focused, no key yet.
PromptInit ==
    /\ inputBuffer = <<>>
    /\ focused = "memory"
    /\ lastKey = "none"

EngineInit ==
    /\ engine = NewEngine(0)
    /\ firstGameId = generateGameId(0)
    /\ idsIssued = 1
    /\ analysis = NoAnalysis
    /\ lastCall = "new"
    /\ returned = [success |-> TRUE]

LoopInit ==
    /\ mode \in {"human-ai", "ai-ai"}
    /\ playerColor \in (IF mode = "human-ai" THEN Colors ELSE {"none"})
    /\ game = NewGame
    /\ pc = "loop"
    /\ currentTurn = "none"
    /\ validMoves = {}
    /\ lastInput = Null
    /\ retries = 0
    /\ toolCalls = 0
    /\ responseText = Null
    /\ workingMemory = ""
    /\ memStore = [c \in Colors |-> ""]
    /\ turnStartLen = 0
    /\ resolvedFrom = NewGame
    /\ outcome = "none"
    /\ applied = 0
    /\ saved = 0
    /\ logged = {}
    /\ message = NoMessage
    /\ aiWorkingMemory = ""
    /\ whiteWorkingMemory = ""
    /\ blackWorkingMemory = ""
    /\ screen = FALSE
    /\ statusContent = "status"
    /\ confirmHandlers = <<>>
    /\ engines = [s \in Sessions |-> NewGame]
    /\ currentGame = 0
    /\ toolCaller = 0
    /\ sessionPc = [s \in Sessions |-> "idle"]
    /\ gameResult = NoResult
    /\ resultHeader = ""
    /\ requests = 0

Init == LoopInit /\ EngineInit /\ MemoryInit /\ CliDefault /\ PersistInit /\ BoxInit /\ PromptInit

TurnMayStartUnawaited == pc \in {"loop", "prompt", "generate"}

\* The game function is at the head of its while loop: every await of the
\* previous iteration (promptForMove, generate, getWorkingMemory) has settled.
TurnMayStart == pc = "loop"

\* while (!game.isGameOver()), the human's branch up to the prompt.
HumanTurnStart ==
    /\ TurnMayStart
    /\ ~isGameOver(game)
    /\ mode = "human-ai"
    /\ getTurn(game) = playerColor
    /\ currentTurn' = getTurn(game)
    /\ validMoves' = getValidMoves(game)
    /\ pc' = "prompt"
    /\ lastInput' = Null
    /\ retries' = 0
    /\ turnStartLen' = Len(game.history)
    /\ outcome' = "none"
    /\ responseText' = Null
    /\ workingMemory' = ""
    /\ UNCHANGED <<mode, playerColor, game, toolCalls, memStore, resolvedFrom, applied,
                   saved, heldVars, sessionVars,
                   gameResult, resultHeader, laterVars>>
    /\ logged' = {}
    /\ message' = NoMessage
    /\ screen' = TRUE
    /\ statusContent' = "status"
    /\ UNCHANGED confirmHandlers
    /\ requests' = requests + 1

\* while (!game.isGameOver()), the agent's branch up to await generate.
AgentTurnStart ==
    /\ TurnMayStart
    /\ ~isGameOver(game)
    /\ mode = "human-ai" => getTurn(game) # playerColor
    /\ currentTurn' = getTurn(game)
    /\ pc' = "generate"
    /\ toolCalls' = 0
    /\ turnStartLen' = Len(game.history)
    /\ outcome' = "none"
    /\ responseText' = Null
    /\ workingMemory' = ""
    /\ lastInput' = Null
    /\ UNCHANGED <<mode, playerColor, game, validMoves, retries, memStore, resolvedFrom,
                   applied, saved, heldVars, sessionVars,
                   gameResult, resultHeader, laterVars>>
    /\ logged' = {}
    /\ message' = NoMessage
    /\ screen' = TRUE
    /\ statusContent' = "status"
    /\ UNCHANGED confirmHandlers
    /\ requests' = requests + 1

\* --------------------------------------------------------- promptForMove
Bump(n) == IF n < MaxRetries THEN n + 1 ELSE n

\* The rl.question callback on 'quit': process.exit(0).
PromptQuit(input) ==
    /\ pc = "prompt"
    /\ toLowerCase(trim(input)) = QUIT
    /\ lastInput' = input
    /\ pc' = "exited"
    /\ UNCHANGED <<mode, playerColor, game, currentTurn, validMoves, retries, toolCalls,
                   responseText, workingMemory, memStore, turnStartLen, resolvedFrom,
                   outcome, applied, saved, logged, message, heldVars, uiVars, sessionVars,
                   resultVars, laterVars>>

\* The callback on 'moves': the list is printed and the question asked again.
PromptShowMoves(input) ==
    /\ pc = "prompt"
    /\ toLowerCase(trim(input)) # QUIT
    /\ toLowerCase(trim(input)) = MOVES
    /\ lastInput' = input
    /\ retries' = Bump(retries)
    /\ UNCHANGED <<mode, playerColor, game, pc, currentTurn, validMoves, toolCalls,
                   responseText, workingMemory, memStore, turnStartLen, resolvedFrom,
                   outcome, applied, saved, logged, message, heldVars, uiVars, sessionVars,
                   resultVars, laterVars>>

AcceptsStripped(moves, move) == StrippedSan(move) \in {StrippedSan(l) : l \in moves}

\* validMoves.includes(move)
Accepts(moves, move) == move \in moves

\* The callback on any other line that is not a valid move: asked again.
PromptInvalid(input) ==
    /\ pc = "prompt"
    /\ toLowerCase(trim(input)) # QUIT
    /\ toLowerCase(trim(input)) # MOVES
    /\ ~Accepts(validMoves, trim(input))
    /\ lastInput' = input
    /\ retries' = Bump(retries)
    /\ UNCHANGED <<mode, playerColor, game, pc, currentTurn, validMoves, toolCalls,
                   responseText, workingMemory, memStore, turnStartLen, resolvedFrom,
                   outcome, applied, saved, logged, message, heldVars, uiVars, sessionVars,
                   resultVars, laterVars>>

\* The callback on a valid move resolves the promise; humanVsAIGame then runs
\* game.executeMove(move) and, on failure, continues the loop.
PromptValid(input) ==
    /\ pc = "prompt"
    /\ toLowerCase(trim(input)) # QUIT
    /\ toLowerCase(trim(input)) # MOVES
    /\ Accepts(validMoves, trim(input))
    /\ lastInput' = input
    /\ LET result == executeMove(game, trim(input))
       IN  /\ game' = result.game
           /\ applied' = applied + Count(result)
           /\ outcome' = IF result.success THEN "human" ELSE "human-error"
    /\ resolvedFrom' = game
    /\ pc' = "loop"
    /\ UNCHANGED <<mode, playerColor, currentTurn, validMoves, retries, toolCalls,
                   responseText, workingMemory, memStore, turnStartLen, saved, logged, message, heldVars, uiVars, sessionVars,
                   gameResult, resultHeader, laterVars>>
    /\ requests' = requests - 1

\* ------------------------------------------------ the agent's generate call
ToolMakeMoveWhilePrompting(move) ==
    /\ pc \in {"generate", "prompt"}
    /\ toolCalls < MaxToolCalls
    /\ toolCalls' = toolCalls + 1
    /\ LET result == executeMove(game, move)
       IN  /\ game' = result.game
           /\ applied' = applied + Count(result)
    /\ UNCHANGED <<mode, playerColor, pc, currentTurn, validMoves, lastInput, retries,
                   responseText, workingMemory, memStore, turnStartLen, resolvedFrom,
                   outcome, saved, logged, message, heldVars, uiVars, sessionVars,
                   resultVars, laterVars>>

\* makeMove.execute, called by the agent while generate is in flight: it
\* runs executeMove on gameState.getGame(), the loop's game.
ToolMakeMove(move) ==
    /\ pc = "generate"
    /\ toolCalls < MaxToolCalls
    /\ toolCalls' = toolCalls + 1
    /\ LET result == executeMove(game, move)
       IN  /\ game' = result.game
           /\ applied' = applied + Count(result)
    /\ UNCHANGED <<mode, playerColor, pc, currentTurn, validMoves, lastInput, retries,
                   responseText, workingMemory, memStore, turnStartLen, resolvedFrom,
                   outcome, saved, logged, message, heldVars, uiVars, sessionVars,
                   resultVars, laterVars>>

\* The agent writes its working memory while generate is in flight.
AgentUpdateMemory(blob) ==
    /\ pc = "generate"
    /\ memStore[AgentColor] # blob
    /\ memStore' = [memStore EXCEPT ![AgentColor] = blob]
    /\ UNCHANGED <<mode, playerColor, game, pc, currentTurn, validMoves, lastInput,
                   retries, toolCalls, responseText, workingMemory, turnStartLen,
                   resolvedFrom, outcome, applied, saved, logged, message, heldVars, uiVars, sessionVars,
                   resultVars, laterVars>>

\* await generate resolves: responseText = response.text || ''.
GenerateReturns(text) ==
    /\ pc = "generate"
    /\ responseText' = text
    /\ pc' = "memory"
    /\ toolCalls' = 0
    /\ UNCHANGED <<mode, playerColor, game, currentTurn, validMoves, lastInput, retries,
                   workingMemory, memStore, turnStartLen, resolvedFrom,
                   outcome, applied, saved, logged, message, heldVars, uiVars, sessionVars,
                   gameResult, resultHeader, laterVars>>
    /\ requests' = requests - 1

\* The move the loop executes when the agent's move is missing or refused:
\* the randomMove it picked and what executeMove made of it.
Fallback(g) ==
    {[randomMove |-> randomMove, result |-> executeMove(g, randomMove)] :
        randomMove \in RandomMove(g)}

PlayedMessage(move) == [kind |-> "played", move |-> move]

FallbackMessageSilent(randomMove) == NoMessage

\* console.log(`... played (fallback): ${randomMove}`), after the red line
\* that says the agent failed.
FallbackMessage(randomMove) == [kind |-> "fallback", move |-> randomMove]

\* await generate rejects: the catch block of the turn.
GenerateThrows ==
    /\ pc = "generate"
    /\ \E fb \in Fallback(game) :
           /\ game' = fb.result.game
           /\ applied' = applied + Count(fb.result)
           /\ message' = FallbackMessage(fb.randomMove)
    /\ logged' = logged \cup {"AI Turn Error"}
    /\ resolvedFrom' = game
    /\ outcome' = "fallback-error"
    /\ pc' = "loop"
    /\ toolCalls' = 0
    /\ UNCHANGED <<mode, playerColor, currentTurn, validMoves, lastInput, retries,
                   responseText, workingMemory, memStore, turnStartLen, saved,
                   heldVars, uiVars, sessionVars,
                   gameResult, resultHeader, laterVars>>
    /\ requests' = requests - 1

WorkingMemoryAfterReadStale(memoryRead, stored) == stored

\* let workingMemory = ''; try { workingMemory = memory || '' } catch: what
\* the loop holds after the read, memoryRead telling whether it succeeded.
WorkingMemoryAfterRead(memoryRead, stored) == IF memoryRead THEN stored ELSE ""

\* After generate: getWorkingMemory (its failure is caught and logged), the
\* display of humanVsAIGame, then extractMoveFromResponse, executeMove and
\* the fallbacks.
ResolveMove(memoryRead) ==
    /\ pc = "memory"
    /\ workingMemory' = WorkingMemoryAfterRead(memoryRead, memStore[AgentColor])
    /\ LET move == extractMoveFromResponse(responseText)
           result == executeMove(game, move)
           readLog == IF memoryRead THEN {} ELSE {"Working Memory Retrieval"}
       IN  IF move = Null
           THEN /\ \E fb \in Fallback(game) :
                       /\ game' = fb.result.game
                       /\ applied' = applied + Count(fb.result)
                       /\ message' = FallbackMessage(fb.randomMove)
                /\ logged' = logged \cup readLog \cup {"Move Extraction Failed"}
                /\ outcome' = "fallback-nomove"
           ELSE IF ~result.success
           THEN /\ \E fb \in Fallback(result.game) :
                       /\ game' = fb.result.game
                       /\ applied' = applied + Count(fb.result)
                       /\ message' = FallbackMessage(fb.randomMove)
                /\ logged' = logged \cup readLog \cup {"Invalid Move"}
                /\ outcome' = "fallback-illegal"
           ELSE /\ game' = result.game
                /\ applied' = applied + 1
                /\ message' = PlayedMessage(move)
                /\ logged' = logged \cup readLog
                /\ outcome' = "applied"
    /\ resolvedFrom' = game
    /\ pc' = "loop"
    /\ statusContent' = IF mode = "human-ai" THEN "status" ELSE statusContent
    /\ UNCHANGED <<mode, playerColor, currentTurn, validMoves, lastInput, retries,
                   toolCalls, responseText, memStore, turnStartLen, saved,
                   heldVars, screen, confirmHandlers, sessionVars,
                   resultVars, laterVars>>

\* The loop ends: the GameResult is built and saveGame is called.
GameOver ==
    /\ pc = "loop"
    /\ isGameOver(game)
    /\ saved' = saved + 1
    /\ pc' = "done"
    /\ UNCHANGED <<mode, playerColor, game, currentTurn, validMoves, lastInput, retries,
                   toolCalls, responseText, workingMemory, memStore, turnStartLen,
                   resolvedFrom, outcome, applied, logged, message, heldVars, sessionVars,
                   requests, laterVars>>
    /\ screen' = TRUE
    /\ statusContent' = "status"
    /\ UNCHANGED confirmHandlers
    /\ gameResult' = GameResultOf(game)
    /\ resultHeader' = resultString(GameResultOf(game).winner)

Next ==
    \/ HumanTurnStart
    \/ AgentTurnStart
    \/ \E input \in HumanInputs : PromptQuit(input)
    \/ \E input \in HumanInputs : PromptShowMoves(input)
    \/ \E input \in HumanInputs : PromptInvalid(input)
    \/ \E input \in HumanInputs : PromptValid(input)
    \/ \E move \in ToolInputs : ToolMakeMove(move)
    \/ \E blob \in MemoryBlobs : AgentUpdateMemory(blob)
    \/ \E text \in LoopTexts : GenerateReturns(text)
    \/ GenerateThrows
    \/ \E memoryRead \in BOOLEAN : ResolveMove(memoryRead)
    \/ GameOver

Spec == Init /\ [][Next]_vars

\* The resolution of a response on its own: aiVsAIGame with agents that answer
\* any text of Texts and neither call a tool nor fail.
InitExtract == Init /\ mode = "ai-ai"

NextExtract ==
    \/ AgentTurnStart
    \/ \E text \in Texts : GenerateReturns(text)
    \/ \E memoryRead \in BOOLEAN : ResolveMove(memoryRead)
    \/ GameOver

SpecExtract == InitExtract /\ [][NextExtract]_vars

\* ------------------------------------- the game loops of unnamed/part_007
\* The later game loops: the screen of ui/board-renderer.ts, a prompt read
\* key by key, and an agent turn that leaves the move to the make-move tool
\* and only displays what generate returned.

\* keypressHandler on Enter with an inputBuffer that is not a valid move: the
\* prompt is displayed again and the buffer cleared.
TuiEnterInvalid(input) ==
    /\ pc = "prompt"
    /\ ~Accepts(validMoves, trim(input))
    /\ lastInput' = input
    /\ retries' = Bump(retries)
    /\ statusContent' = "status"
    /\ UNCHANGED <<mode, playerColor, game, pc, currentTurn, validMoves, toolCalls,
                   responseText, workingMemory, memStore, turnStartLen, resolvedFrom,
                   outcome, applied, saved, logged, message, heldVars, screen,
                   confirmHandlers, sessionVars,
                   resultVars, laterVars>>

\* keypressHandler on Enter with a valid move: the promise resolves and
\* humanVsAIGame runs game.executeMove(move).
TuiEnterValid(input) ==
    /\ pc = "prompt"
    /\ Accepts(validMoves, trim(input))
    /\ lastInput' = input
    /\ LET result == executeMove(game, trim(input))
       IN  /\ game' = result.game
           /\ applied' = applied + Count(result)
           /\ outcome' = IF result.success THEN "human" ELSE "human-error"
    /\ resolvedFrom' = game
    /\ pc' = "loop"
    /\ statusContent' = "status"
    /\ UNCHANGED <<mode, playerColor, currentTurn, validMoves, retries, toolCalls,
                   responseText, workingMemory, memStore, turnStartLen, saved, logged,
                   message, heldVars, screen, confirmHandlers, sessionVars,
                   gameResult, resultHeader, laterVars>>
    /\ requests' = requests - 1

\* The catch block of the agent's turn: a random legal move is executed and
\* displayed.
TuiGenerateThrows ==
    /\ pc = "generate"
    /\ \E fb \in Fallback(game) :
           /\ game' = fb.result.game
           /\ applied' = applied + Count(fb.result)
           /\ message' = FallbackMessage(fb.randomMove)
    /\ logged' = logged \cup {"AI Turn Error"}
    /\ resolvedFrom' = game
    /\ outcome' = "fallback-error"
    /\ pc' = "loop"
    /\ toolCalls' = 0
    /\ statusContent' = "status"
    /\ UNCHANGED <<mode, playerColor, currentTurn, validMoves, lastInput, retries,
                   responseText, workingMemory, memStore, turnStartLen, saved,
                   heldVars, screen, confirmHandlers, sessionVars,
                   gameResult, resultHeader, laterVars>>
    /\ requests' = requests - 1

MemoryOwnerAtRead == getTurn(game)

\* if (currentColor === 'white') whiteWorkingMemory = ... else
\* blackWorkingMemory = ...: the colour whose kept memory the read updates.
MemoryOwner == currentTurn

\* After generate: getWorkingMemory updates the memory kept for the agent
\* (a failed read is logged and keeps it), the move is extracted for display
\* only; without a move in the text the last move of the board is displayed,
\* and without that the failure is logged.  No move is executed.
TuiShowMove(memoryRead) ==
    /\ pc = "memory"
    /\ workingMemory' = IF mode = "ai-ai"
                        THEN WorkingMemoryAfterRead(memoryRead, memStore[AgentColor])
                        ELSE workingMemory
    /\ aiWorkingMemory' = IF mode = "human-ai" /\ memoryRead
                          THEN memStore[AgentColor] ELSE aiWorkingMemory
    /\ whiteWorkingMemory' = IF mode = "ai-ai" /\ memoryRead /\ MemoryOwner = "white"
                             THEN memStore[AgentColor] ELSE whiteWorkingMemory
    /\ blackWorkingMemory' = IF mode = "ai-ai" /\ memoryRead /\ MemoryOwner # "white"
                             THEN memStore[AgentColor] ELSE blackWorkingMemory
    /\ LET move == extractMoveFromResponse(responseText)
           lastMove == getLastMove(game)
           readLog == IF memoryRead THEN {} ELSE {"Working Memory Retrieval"}
       IN  IF move # Null
           THEN /\ message' = PlayedMessage(move)
                /\ logged' = logged \cup readLog
                /\ statusContent' = "status"
           ELSE IF lastMove # Null
           THEN /\ message' = PlayedMessage(lastMove)
                /\ logged' = logged \cup readLog
                /\ statusContent' = "status"
           ELSE /\ message' = NoMessage
                /\ logged' = logged \cup readLog \cup {"Move Extraction Failed"}
                /\ statusContent' = IF mode = "human-ai" THEN "status" ELSE statusContent
    /\ resolvedFrom' = game
    /\ outcome' = "displayed"
    /\ pc' = "loop"
    /\ UNCHANGED <<mode, playerColor, game, currentTurn, validMoves, lastInput, retries,
                   toolCalls, responseText, memStore, turnStartLen, applied, saved,
                   screen, confirmHandlers, sessionVars,
                   resultVars, laterVars>>

NextTui ==
    \/ HumanTurnStart
    \/ AgentTurnStart
    \/ \E input \in HumanInputs : TuiEnterInvalid(input)
    \/ \E input \in HumanInputs : TuiEnterValid(input)
    \/ \E move \in ToolInputs : ToolMakeMove(move)
    \/ \E blob \in MemoryBlobs : AgentUpdateMemory(blob)
    \/ \E text \in LoopTexts : GenerateReturns(text)
    \/ TuiGenerateThrows
    \/ \E memoryRead \in BOOLEAN : TuiShowMove(memoryRead)
    \/ GameOver

SpecTui == Init /\ [][NextTui]_vars

\* --------------------------------------- two sessions in the same process
\* Two calls of aiVsAIGame in one process.  Each creates its own GameEngine
\* and registers it with the gameState singleton; the tools of every agent
\* reach the engine through gameState.getGame().
loopVars == <<mode, playerColor, game, pc, currentTurn, validMoves, lastInput, retries,
              toolCalls, responseText, workingMemory, memStore, turnStartLen,
              resolvedFrom, outcome, applied, saved, logged, message>>

\* const game = new GameEngine(); gameState.setGame(game);
StartSession(s) ==
    /\ sessionPc[s] = "idle"
    /\ engines' = [engines EXCEPT ![s] = NewGame]
    /\ currentGame' = s
    /\ sessionPc' = [sessionPc EXCEPT ![s] = "running"]
    /\ toolCaller' = 0
    /\ UNCHANGED <<loopVars, heldVars, uiVars, resultVars, laterVars>>

\* gameState.getGame(): the engine last registered, whoever calls; 0 when
\* there is none (getGame then throws).
getGame(s) == currentGame

\* makeMove.execute called by an agent of session s while its generate is in
\* flight: executeMove on gameState.getGame().
SessionToolMakeMove(s, move) ==
    /\ sessionPc[s] = "running"
    /\ toolCaller' = s
    /\ IF getGame(s) = 0
       THEN UNCHANGED engines
       ELSE /\ Len(engines[getGame(s)].history) < MaxPly
            /\ engines' = [engines EXCEPT
                   ![getGame(s)] = executeMove(engines[getGame(s)], move).game]
    /\ UNCHANGED <<currentGame, sessionPc, loopVars, heldVars, uiVars, resultVars, laterVars>>

\* The loop of session s finds its game over; after saveGame,
\* gameState.clearGame().
EndSession(s) ==
    /\ sessionPc[s] = "running"
    /\ isGameOver(engines[s])
    /\ currentGame' = 0
    /\ sessionPc' = [sessionPc EXCEPT ![s] = "done"]
    /\ toolCaller' = 0
    /\ UNCHANGED <<engines, loopVars, heldVars, uiVars, resultVars, laterVars>>

InitSessions == Init /\ mode = "ai-ai"

\* The strings the agents of the two sessions pass to make-move.
SessionToolInputs == {E4, E5, CASTLE, QXF7MATE, OKWORD}

NextSessions ==
    \/ \E s \in Sessions : StartSession(s)
    \/ \E s \in Sessions : \E move \in SessionToolInputs : SessionToolMakeMove(s, move)
    \/ \E s \in Sessions : EndSession(s)

SpecSessions == InitSessions /\ [][NextSessions]_vars

\* ----------------------------------- the key handler of board-renderer.ts
\* humanVsAIGame of game-loop.ts on the screen of ui/board-renderer.ts: the
\* global keypress handler asks for a confirmation before it quits.  A
\* listener registered while a keypress is being delivered does not receive
\* that keypress.
QuitKeys == {"C-c", "q", "escape"}

Keys == QuitKeys \cup {"y", "n"}

\* One keypress on the screen.  globalKeyHandler runs first: on Ctrl+C, Q or
\* ESC it calls confirmQuit, which saves the content of statusBox, shows the
\* prompt and registers a confirmHandler.  Then every confirmHandler that was
\* registered before the keypress runs: on Y it resolves true, and the
\* global handler that awaits it calls cleanupScreen() and process.exit(0);
\* on N or ESC it restores the content it saved and resolves false; it
\* ignores any other key.
Keypress(key) ==
    /\ screen
    /\ pc # "exited"
    /\ CASE key = "y" ->
              /\ confirmHandlers # <<>>
              /\ confirmHandlers' = <<>>
              /\ screen' = FALSE
              /\ pc' = "exited"
              /\ UNCHANGED statusContent
         [] key = "n" ->
              /\ confirmHandlers # <<>>
              /\ confirmHandlers' = <<>>
              /\ statusContent' = confirmHandlers[Len(confirmHandlers)]
              /\ UNCHANGED <<screen, pc>>
         [] key = "escape" ->
              /\ confirmHandlers' = <<statusContent>>
              /\ statusContent' = IF confirmHandlers = <<>> THEN "prompt"
                                  ELSE confirmHandlers[Len(confirmHandlers)]
              /\ UNCHANGED <<screen, pc>>
         [] OTHER ->
              /\ Len(confirmHandlers) < MaxConfirms
              /\ confirmHandlers' = Append(confirmHandlers, statusContent)
              /\ statusContent' = "prompt"
              /\ UNCHANGED <<screen, pc>>
    /\ UNCHANGED <<mode, playerColor, game, currentTurn, validMoves, lastInput, retries,
                   toolCalls, responseText, workingMemory, memStore, turnStartLen,
                   resolvedFrom, outcome, applied, saved, logged, message, heldVars,
                   sessionVars,
                   resultVars, laterVars>>

InitKeys == Init /\ mode = "human-ai"

\* What the human types and what the agent answers under the key handler.
KeysInputs == {E4, E5, CASTLE, OKWORD, QUIT}

KeysTexts == {Null, E4, E5, CASTLE}

NextKeys ==
    \/ HumanTurnStart
    \/ AgentTurnStart
    \/ \E input \in KeysInputs : PromptQuit(input)
    \/ \E input \in KeysInputs : PromptInvalid(input)
    \/ \E input \in KeysInputs : PromptValid(input)
    \/ \E move \in KeysInputs : ToolMakeMove(move)
    \/ \E text \in KeysTexts : GenerateReturns(text)
    \/ GenerateThrows
    \/ \E memoryRead \in BOOLEAN : ResolveMove(memoryRead)
    \/ GameOver
    \/ \E key \in Keys : Keypress(key)

SpecKeys == InitKeys /\ [][NextKeys]_vars

\* --------------------------------------------- the calls on the engine
nonEngineVars == <<loopVars, heldVars, uiVars, sessionVars, resultVars, cliVars, memoryVars, persistVars, boxVars, promptVars>>

\* game.executeMove(move)
EngineExecuteMove(move) ==
    /\ Len(engine.chess.history) < MaxEnginePly
    /\ LET result == engineExecuteMove(engine, move)
       IN  /\ engine' = result.engine
           /\ returned' = [success |-> result.success]
           /\ analysis' = IF result.success THEN NoAnalysis ELSE analysis
    /\ lastCall' = "executeMove"
    /\ UNCHANGED <<firstGameId, idsIssued>>
    /\ UNCHANGED nonEngineVars

\* game.loadPGN(pgn): true when every move of the PGN was accepted; when one
\* is refused chess.js throws with the moves before it already made, or,
\* in the versions that parse the moves first, with the position untouched.
EngineLoadPGN(pgn) ==
    /\ LET loaded == Replay(SetupOf(pgn.setup), pgn.moves)
       IN  /\ returned' = [success |-> loaded.ok]
           /\ \/ engine' = [engine EXCEPT !.chess = loaded.chess, !.headers = NoHeaders]
              \/ ~loaded.ok /\ engine' = engine
    /\ analysis' = IF engine'.chess = engine.chess THEN analysis ELSE NoAnalysis
    /\ lastCall' = "loadPGN"
    /\ UNCHANGED <<firstGameId, idsIssued>>
    /\ UNCHANGED nonEngineVars

\* game.setPGNHeader('Result', value)
EngineSetPGNHeader(value) ==
    /\ engine' = [engine EXCEPT !.headers.Result = value]
    /\ lastCall' = "setPGNHeader"
    /\ returned' = [success |-> TRUE]
    /\ UNCHANGED <<firstGameId, idsIssued, analysis>>
    /\ UNCHANGED nonEngineVars

\* game.reset()
EngineReset ==
    /\ idsIssued < MaxGameIds
    /\ engine' = reset(engine, idsIssued)
    /\ idsIssued' = idsIssued + 1
    /\ analysis' = NoAnalysis
    /\ lastCall' = "reset"
    /\ returned' = [success |-> TRUE]
    /\ UNCHANGED firstGameId
    /\ UNCHANGED nonEngineVars

\* game.analyzePosition(), called directly or by the analyze-position tool
\* on gameState.getGame().
ToolAnalyzePosition ==
    /\ analysis' = analyzePosition(engine.chess)
    /\ returned' = [success |-> TRUE]
    /\ lastCall' = "analyze-position"
    /\ UNCHANGED <<engine, firstGameId, idsIssued>>
    /\ UNCHANGED nonEngineVars

\* getMaterialCount() of one colour.
MaterialCount(board, color) ==
    [t \in {"p", "n", "b", "r", "q"} |->
        Cardinality({sq \in PiecesOn(board) :
            board[sq[1]][sq[2]] = Piece(color, t)})]

\* The get-board-state tool: getTurn, getMoveNumber, getLastMove and
\* getMaterialCount of gameState.getGame().
ToolGetBoardState ==
    /\ returned' = [turn |-> engine.chess.turn,
                    moveNumber |-> engine.chess.moveNumber,
                    lastMove |-> getLastMove(engine.chess),
                    material |-> [white |-> MaterialCount(engine.chess.board, "w"),
                                  black |-> MaterialCount(engine.chess.board, "b")]]
    /\ lastCall' = "get-board-state"
    /\ UNCHANGED <<engine, firstGameId, idsIssued, analysis>>
    /\ UNCHANGED nonEngineVars

testGameIsTheGame(p) == [shared |-> TRUE, chess |-> p]

\* const testGame = new chess.constructor(chess.fen()): another instance,
\* made from the FEN, which has no history.
testGame(p) ==
    [shared |-> FALSE,
     chess |-> [p EXCEPT !.history = <<>>, !.positions = <<PositionKey(p.board, p.turn)>>]]

\* The engine's position once the moves have been tried on the test game:
\* as it was, the test game being another instance.
AfterTests(p, tested) ==
    IF tested.shared /\ VerboseMoves(p) # {}
    THEN ChessMove(p, CHOOSE m \in VerboseMoves(p) : TRUE)
    ELSE p

\* The get-valid-moves tool: the legal moves, and for each of them whether
\* it captures, checks (tried on testGame), castles or develops.
ToolGetValidMoves ==
    /\ LET p == engine.chess
           backRank == IF p.turn = "w" THEN "1" ELSE "8"
           verboseMoves == VerboseMoves(p)
       IN  returned' =
               [moves |-> ChessMoves(p),
                count |-> Cardinality(ChessMoves(p)),
                inCheck |-> p.check,
                captures |-> {m.san : m \in {v \in verboseMoves :
                                                PieceAt(p.board, v.to) # Empty}},
                checks |-> {m.san : m \in {v \in verboseMoves :
                                              ChessMove(testGame(p).chess, v).check}},
                developing |-> {m.san : m \in {v \in verboseMoves :
                                    /\ PieceAt(p.board, v.from).type \notin {"p", "k"}
                                    /\ v.from[2] = backRank}}]
    /\ engine' = [engine EXCEPT !.chess = AfterTests(engine.chess, testGame(engine.chess))]
    /\ lastCall' = "get-valid-moves"
    /\ UNCHANGED <<firstGameId, idsIssued, analysis>>
    /\ UNCHANGED nonEngineVars

\* The get-game-history tool: getHistory() and its length.
ToolGetGameHistory ==
    /\ returned' = [moves |-> engine.chess.history,
                    moveCount |-> Len(engine.chess.history)]
    /\ lastCall' = "get-game-history"
    /\ UNCHANGED <<engine, firstGameId, idsIssued, analysis>>
    /\ UNCHANGED nonEngineVars

\* game.isGameOver(), game.getWinner() and game.getGameOverReason(), as the
\* game functions call them when their loop ends.
EngineGetWinner ==
    /\ returned' = [isGameOver |-> ChessAnswers(engine.chess).isGameOver,
                    winner |-> getWinner(ChessAnswers(engine.chess)),
                    reason |-> getGameOverReason(ChessAnswers(engine.chess))]
    /\ lastCall' = "getWinner"
    /\ UNCHANGED <<engine, firstGameId, idsIssued, analysis>>
    /\ UNCHANGED nonEngineVars

InitEngine == Init /\ mode = "ai-ai"

\* The strings passed to executeMove on the engine.
EngineInputs ==
    {E4, E5, D5, EXD5, QXD5, F3, G4, QH4MATE, NF3, NF6, NG1, NG8, QG6, QG7MATE,
     RA2, RA1, KD2, KE1, KD5, KE5, QH5, OKWORD}

HeaderValues == {"1-0", "1/2-1/2"}

NextEngine ==
    \/ \E move \in EngineInputs : EngineExecuteMove(move)
    \/ \E pgn \in Pgns : EngineLoadPGN(pgn)
    \/ \E value \in HeaderValues : EngineSetPGNHeader(value)
    \/ EngineReset
    \/ ToolAnalyzePosition
    \/ ToolGetBoardState
    \/ ToolGetValidMoves
    \/ ToolGetGameHistory
    \/ EngineGetWinner

SpecEngine == InitEngine /\ [][NextEngine]_vars

\* --------------------------------------------------- the phase of a game
\* detectGamePhase over positions of every move number, piece count and
\* queen count: the two kings, then the queens, then pawns and knights, on
\* the squares of ranks 7 to 2.
Alternate(i) == IF i % 2 = 1 THEN "w" ELSE "b"

\* The i-th piece put on the board after the kings, queens of them being queens.
PhasePiece(i, queens) ==
    Piece(Alternate(i), IF i <= queens THEN "q" ELSE IF i <= queens + 16 THEN "p" ELSE "n")

PhaseBoard(totalPieces, queens) ==
    [r \in 1..8 |-> [f \in 1..8 |->
        IF r = 1 THEN (IF f = 5 THEN Piece("b", "k") ELSE Empty)
        ELSE IF r = 8 THEN (IF f = 5 THEN Piece("w", "k") ELSE Empty)
        ELSE IF (r - 2) * 8 + f <= totalPieces - 2 THEN PhasePiece((r - 2) * 8 + f, queens)
        ELSE Empty]]

PhasePositions ==
    {Setup("phase", PhaseBoard(totalPieces, queens), "w", moveNumber, 0) :
        <<moveNumber, totalPieces, queens>> \in
            {t \in (1..MaxMoveNumber) \X (2..32) \X (0..MaxQueens) : t[3] <= t[2] - 2}}

InitPhase ==
    /\ LoopInit /\ mode = "ai-ai" /\ MemoryInit /\ CliDefault
    /\ PersistInit /\ BoxInit /\ PromptInit
    /\ engine \in {[NewEngine(0) EXCEPT !.chess = p] : p \in PhasePositions}
    /\ firstGameId = generateGameId(0)
    /\ idsIssued = 1
    /\ analysis = NoAnalysis
    /\ lastCall = "new"
    /\ returned = [success |-> TRUE]

NextPhase ==
    \/ ToolAnalyzePosition
    \/ ToolGetBoardState
    \/ ToolGetGameHistory

SpecPhase == InitPhase /\ [][NextPhase]_vars

nonCliVars == <<loopVars, heldVars, uiVars, sessionVars, resultVars, engineVars, memoryVars, persistVars, boxVars, promptVars>>

\* if (!['human-ai', 'ai-ai'].includes(mode)) process.exit(1)
CliCheckMode ==
    /\ cliPc = "mode"
    /\ cliPc' = IF cliOptions.mode \in {"human-ai", "ai-ai"} THEN "color" ELSE "exit-1"
    /\ UNCHANGED <<cliOptions, agentsCreated>>
    /\ UNCHANGED nonCliVars

\* if (mode === 'human-ai' && !['white', 'black'].includes(color)) process.exit(1)
CliCheckColor ==
    /\ cliPc = "color"
    /\ cliPc' = IF cliOptions.mode = "human-ai" /\ cliOptions.color \notin {"white", "black"}
                THEN "exit-1" ELSE "model"
    /\ UNCHANGED <<cliOptions, agentsCreated>>
    /\ UNCHANGED nonCliVars

\* const modelName = options.model || 'haiku';
\* if (!isValidModelName(modelName)) process.exit(1)
CliCheckModel ==
    /\ cliPc = "model"
    /\ cliPc' = IF isValidModelName(OrElse(cliOptions.model, "haiku"))
                THEN "side-models" ELSE "exit-1"
    /\ UNCHANGED <<cliOptions, agentsCreated>>
    /\ UNCHANGED nonCliVars

\* In ai-ai mode --white-model and --black-model are validated when given.
CliCheckSideModels ==
    /\ cliPc = "side-models"
    /\ cliPc' = IF /\ cliOptions.mode = "ai-ai"
                   /\ \/ /\ cliOptions.whiteModel # "undefined"
                         /\ ~isValidModelName(cliOptions.whiteModel)
                      \/ /\ cliOptions.blackModel # "undefined"
                         /\ ~isValidModelName(cliOptions.blackModel)
                THEN "exit-1" ELSE "start"
    /\ UNCHANGED <<cliOptions, agentsCreated>>
    /\ UNCHANGED nonCliVars

\* aiVsAIGame(whiteModel, blackModel) or humanVsAIGame(color, modelName): the
\* game function creates its agents; an error it throws ends the process
\* with status 1.
CliStartGame(throws) ==
    /\ cliPc = "start"
    /\ LET modelName == OrElse(cliOptions.model, "haiku")
       IN  agentsCreated' =
               IF cliOptions.mode = "ai-ai"
               THEN {[agent |-> "White-AI", model |-> OrElse(cliOptions.whiteModel, modelName)],
                     [agent |-> "Black-AI", model |-> OrElse(cliOptions.blackModel, modelName)]}
               ELSE {[agent |-> "AI", model |-> modelName]}
    /\ cliPc' = IF throws THEN "exit-1" ELSE "exit-0"
    /\ UNCHANGED cliOptions
    /\ UNCHANGED nonCliVars

InitCli ==
    /\ LoopInit /\ mode = "ai-ai" /\ EngineInit /\ MemoryInit /\ CliInit
    /\ PersistInit /\ BoxInit /\ PromptInit

NextCli ==
    \/ CliCheckMode
    \/ CliCheckColor
    \/ CliCheckModel
    \/ CliCheckSideModels
    \/ \E throws \in BOOLEAN : CliStartGame(throws)

SpecCli == InitCli /\ [][NextCli]_vars

\* ------------------------------------------- the games and their memory keys
nonMemoryVars == <<loopVars, heldVars, uiVars, sessionVars, resultVars, engineVars, cliVars, persistVars, boxVars, promptVars>>

\* A game function begins: const game = new GameEngine().
MemStartGame(s, m, color) ==
    /\ memGames[s].pc = "idle"
    /\ memIssued < MaxGames
    /\ memGames' = [memGames EXCEPT ![s] =
           [NoGame EXCEPT !.mode = m, !.playerColor = color,
                          !.gameId = generateGameId(memIssued), !.pc = "loop"]]
    /\ memIssued' = memIssued + 1
    /\ UNCHANGED keyUsers
    /\ UNCHANGED nonMemoryVars

\* The human's turn of humanVsAIGame: no memory is touched.
MemHumanMove(s) ==
    /\ memGames[s].pc = "loop"
    /\ memGames[s].plies < MaxMemoryPly
    /\ memGames[s].mode = "human-ai"
    /\ memGames[s].turn = memGames[s].playerColor
    /\ memGames' = [memGames EXCEPT ![s].turn = IF @ = "white" THEN "black" ELSE "white",
                                    ![s].plies = @ + 1]
    /\ UNCHANGED <<memIssued, keyUsers>>
    /\ UNCHANGED nonMemoryVars

\* agent.generate(prompt, { resourceId, threadId, ... }): the agent reads and
\* writes its working memory under the pair it is given.
MemGenerate(s) ==
    /\ memGames[s].pc = "loop"
    /\ memGames[s].plies < MaxMemoryPly
    /\ memGames[s].mode = "human-ai" => memGames[s].turn # memGames[s].playerColor
    /\ LET key == MemoryKey(memGames[s], memGames[s].turn)
       IN  /\ memGames' = [memGames EXCEPT ![s].generateKey = key,
                                           ![s].readKey = NoKey,
                                           ![s].pc = "generated"]
           /\ keyUsers' = keyUsers \cup
                  {[gameId |-> memGames[s].gameId, color |-> memGames[s].turn, key |-> key]}
    /\ UNCHANGED memIssued
    /\ UNCHANGED nonMemoryVars

\* memory.getWorkingMemory({ resourceId, threadId }) after generate, then the
\* move of the turn.
MemGetWorkingMemory(s) ==
    /\ memGames[s].pc = "generated"
    /\ LET key == MemoryKey(memGames[s], memGames[s].turn)
       IN  /\ memGames' = [memGames EXCEPT ![s].readKey = key,
                                           ![s].pc = "loop",
                                           ![s].turn = IF @ = "white" THEN "black" ELSE "white",
                                           ![s].plies = @ + 1]
           /\ keyUsers' = keyUsers \cup
                  {[gameId |-> memGames[s].gameId, color |-> memGames[s].turn, key |-> key]}
    /\ UNCHANGED memIssued
    /\ UNCHANGED nonMemoryVars

\* The game of the session ends; another may begin in its place.
MemEndGame(s) ==
    /\ memGames[s].pc = "loop"
    /\ memGames[s].plies = MaxMemoryPly
    /\ memGames' = [memGames EXCEPT ![s] = NoGame]
    /\ UNCHANGED <<memIssued, keyUsers>>
    /\ UNCHANGED nonMemoryVars

InitMemory == Init /\ mode = "ai-ai"

NextMemory ==
    \/ \E s \in Sessions : \E m \in GameModes :
           \E color \in (IF m = "human-ai" THEN Colors ELSE {"none"}) : MemStartGame(s, m, color)
    \/ \E s \in Sessions : MemHumanMove(s)
    \/ \E s \in Sessions : MemGenerate(s)
    \/ \E s \in Sessions : MemGetWorkingMemory(s)
    \/ \E s \in Sessions : MemEndGame(s)

SpecMemory == InitMemory /\ [][NextMemory]_vars

\* ------------------------------------------- the memory logs on the disk
\* src/src/utils/memory-persistence.ts and the logger it calls.  The clock is
\* the time new Date() reads; the disk is the list of appends made so far.
nonPersistVars == <<loopVars, heldVars, uiVars, sessionVars, resultVars, engineVars, cliVars,
                    memoryVars, boxVars, promptVars>>

Digits == <<"0", "1", "2", "3", "4", "5", "6", "7", "8", "9">>

\* [a-zA-Z0-9-_]: the characters agentName.replace keeps.
SafeNameChars ==
    {"a", "b", "c", "d", "e", "f", "g", "h", "i", "j", "k", "l", "m", "n", "o", "p", "q",
     "r", "s", "t", "u", "v", "w", "x", "y", "z",
     "A", "B", "C", "D", "E", "F", "G", "H", "I", "J", "K", "L", "M", "N", "O", "P", "Q",
     "R", "S", "T", "U", "V", "W", "X", "Y", "Z",
     "0", "1", "2", "3", "4", "5", "6", "7", "8", "9", "-", "_"}

\* new Date().toISOString() at t milliseconds: the end of the stamp, seconds
\* and fraction, which is where two reads of the clock differ first.
toISOString(t) == <<":", Digits[(t \div 10) + 1], ".", Digits[(t % 10) + 1], "Z">>

\* String.prototype.replace with a global character class: every character
\* of the class becomes `by`.
ReplaceEach(s, class, by) == [i \in 1..Len(s) |-> IF s[i] \in class THEN by ELSE s[i]]

\* getMemoryFilename(gameId, agentName), called when the clock reads now.
getMemoryFilename(gameId, agentName, now) ==
    LET timestamp == ReplaceEach(toISOString(now), {":", "."}, "-")
        sanitizedName == ReplaceEach(agentName, {c \in {agentName[i] : i \in DOMAIN agentName} :
                                                     c \notin SafeNameChars}, "_")
    IN  sanitizedName \o <<"_">> \o gameId \o <<"_">> \o timestamp \o <<".txt">>

\* logError(context, error) and logInfo(message): appendFileSync on the
\* error log inside a try whose catch swallows; written tells whether the
\* line reached the file.
logError(context, logFails) == [level |-> "error", context |-> context, written |-> ~logFails]

logInfo(text, logFails) == [level |-> "info", context |-> text, written |-> ~logFails]

\* ensureMemoryDir(): fs.mkdir(MEMORY_DIR, {recursive: true}); its catch logs
\* and throws again.
ensureMemoryDir(fault, logFails) ==
    IF fault = "mkdir"
    THEN [threw |-> TRUE, logged |-> <<logError("Memory Directory Creation", logFails)>>]
    ELSE [threw |-> FALSE, logged |-> <<>>]

CatchLogAndRethrow(context, logFails) ==
    [settled |-> "rejected", logged |-> <<logError(context, logFails)>>]

\* The catch of saveWorkingMemory and of appendMemorySummary: logError and
\* no throw, so the async function returns and its promise resolves.
CatchAndLog(context, logFails) ==
    [settled |-> "resolved", logged |-> <<logError(context, logFails)>>]

\* The body shared by the two functions, which differ in the entry they
\* write and in the context they log: ensureMemoryDir, the file name from the
\* clock, fs.appendFile, logInfo; any throw lands in the catch.
PersistEntry(context, info, entry, now, fault, logFails) ==
    LET dir == ensureMemoryDir(fault, logFails)
        filename == getMemoryFilename(entry.gameId, entry.agentName, now)
        caught == CatchAndLog(context, logFails)
    IN  IF dir.threw
        THEN [mkdir |-> FALSE, appends |-> <<>>, file |-> Null,
              logged |-> dir.logged \o caught.logged, settled |-> caught.settled]
        ELSE IF fault = "append"
        THEN [mkdir |-> TRUE, appends |-> <<>>, file |-> Null,
              logged |-> caught.logged, settled |-> caught.settled]
        ELSE [mkdir |-> TRUE, appends |-> <<[file |-> filename, entry |-> entry]>>,
              file |-> filename, logged |-> <<logInfo(info, logFails)>>,
              settled |-> "resolved"]

\* saveWorkingMemory(gameId, agentName, workingMemory, moveNumber)
saveWorkingMemory(gameId, agentName, memory, moveNumber, now, fault, logFails) ==
    PersistEntry("Working Memory Save", "Working memory saved",
                 [kind |-> "memory", gameId |-> gameId, agentName |-> agentName,
                  body |-> memory, moveNumber |-> moveNumber],
                 now, fault, logFails)

\* appendMemorySummary(gameId, agentName, summary)
appendMemorySummary(gameId, agentName, summary, now, fault, logFails) ==
    PersistEntry("Memory Summary Append", "Memory summary appended",
                 [kind |-> "summary", gameId |-> gameId, agentName |-> agentName,
                  body |-> summary, moveNumber |-> 0],
                 now, fault, logFails)

\* One call of either function, from its first line to the settling of its
\* promise.
PersistCall(fn, gameId, agentName, result, fault) ==
    /\ Len(persistCalls) < MaxPersistCalls
    /\ memoryDir' = (memoryDir \/ result.mkdir)
    /\ memoryLog' = memoryLog \o result.appends
    /\ errorLog' = errorLog \o result.logged
    /\ persistCalls' = Append(persistCalls,
                              [fn |-> fn, gameId |-> gameId, agentName |-> agentName,
                               fault |-> fault, file |-> result.file,
                               logged |-> result.logged, settled |-> result.settled])
    /\ UNCHANGED <<clock, nonPersistVars>>

SaveWorkingMemory(gameId, agentName, moveNumber, fault, logFails) ==
    PersistCall("saveWorkingMemory", gameId, agentName,
                saveWorkingMemory(gameId, agentName, <<"m">>, moveNumber, clock, fault, logFails),
                fault)

AppendMemorySummary(gameId, agentName, fault, logFails) ==
    PersistCall("appendMemorySummary", gameId, agentName,
                appendMemorySummary(gameId, agentName, <<"s">>, clock, fault, logFails),
                fault)

\* A millisecond passes.
Tick ==
    /\ clock < MaxClock
    /\ clock' = clock + 1
    /\ UNCHANGED <<memoryDir, memoryLog, persistCalls, errorLog, nonPersistVars>>

\* The arguments of the calls: two games, the white agent of aiVsAIGame and
\* a name with a blank, with and without a failing disk.
PersistGameIds == {<<"g", "1">>, <<"g", "2">>}

PersistAgentNames == {<<"W", "h", "i", "t", "e", "-", "A", "I">>,
                      <<"W", "h", "i", "t", "e", " ", "A", "I">>}

PersistFaults == {"none", "mkdir", "append"}

InitPersist == Init /\ mode = "ai-ai"

NextPersist ==
    \/ \E gameId \in PersistGameIds : \E agentName \in PersistAgentNames :
           \E moveNumber \in {1} : \E fault \in PersistFaults : \E logFails \in BOOLEAN :
               SaveWorkingMemory(gameId, agentName, moveNumber, fault, logFails)
    \/ \E gameId \in PersistGameIds : \E agentName \in PersistAgentNames :
           \E fault \in PersistFaults : \E logFails \in BOOLEAN :
               AppendMemorySummary(gameId, agentName, fault, logFails)
    \/ Tick

SpecPersist == InitPersist /\ [][NextPersist]_vars

\* ----------------------------------- humanVsAIGame with the input textbox
\* src/unnamed/part_005: promptForMove opens a blessed textbox; ESC or Ctrl+C
\* in it opens a confirmation box whose Y rejects the promise of the prompt,
\* and humanVsAIGame catches the rejection.
nonBoxVars == <<loopVars, heldVars, uiVars, sessionVars, resultVars, engineVars, cliVars,
                memoryVars, persistVars, promptVars>>

\* initializeScreen(); const game = new GameEngine(); gameState.setGame(game)
BoxBegin ==
    /\ boxPc = "idle"
    /\ boxScreen' = TRUE
    /\ boxCurrentGame' = TRUE
    /\ boxGame' = NewGame
    /\ boxPc' = "loop"
    /\ UNCHANGED <<boxValidMoves, boxReturn, nonBoxVars>>

\* The human's branch up to the prompt: validMoves = game.getValidMoves().
BoxHumanTurn ==
    /\ boxPc = "loop"
    /\ ~isGameOver(boxGame)
    /\ getTurn(boxGame) = playerColor
    /\ boxValidMoves' = getValidMoves(boxGame)
    /\ boxPc' = "prompt"
    /\ UNCHANGED <<boxScreen, boxCurrentGame, boxGame, boxReturn, nonBoxVars>>

\* inputBox 'submit' with a valid move: resolve(move), then
\* game.executeMove(move) in humanVsAIGame.
BoxSubmit(input) ==
    /\ boxPc = "prompt"
    /\ toLowerCase(trim(input)) # MOVES
    /\ Accepts(boxValidMoves, trim(input))
    /\ boxGame' = executeMove(boxGame, trim(input)).game
    /\ boxPc' = "loop"
    /\ UNCHANGED <<boxScreen, boxCurrentGame, boxValidMoves, boxReturn, nonBoxVars>>

\* inputBox.key(['escape', 'C-c']): the confirmation box opens and
\* onConfirmKey listens.
BoxQuitKey ==
    /\ boxPc = "prompt"
    /\ boxPc' = "confirm"
    /\ UNCHANGED <<boxScreen, boxCurrentGame, boxGame, boxValidMoves, boxReturn, nonBoxVars>>

\* onConfirmKey: Y rejects with 'User quit', and the catch around
\* promptForMove in humanVsAIGame returns; N or ESC closes the box.
BoxConfirmKey(key) ==
    /\ boxPc = "confirm"
    /\ IF key = "y"
       THEN /\ boxPc' = "returned"
            /\ boxReturn' = "quit"
       ELSE /\ boxPc' = "prompt"
            /\ UNCHANGED boxReturn
    /\ UNCHANGED <<boxScreen, boxCurrentGame, boxGame, boxValidMoves, nonBoxVars>>

\* The agent's branch: the make-move tool executes a move during generate,
\* or generate throws and the catch executes a random legal move.
BoxAgentTurn(move) ==
    /\ boxPc = "loop"
    /\ ~isGameOver(boxGame)
    /\ getTurn(boxGame) # playerColor
    /\ move \in getValidMoves(boxGame)
    /\ boxGame' = executeMove(boxGame, move).game
    /\ UNCHANGED <<boxPc, boxScreen, boxCurrentGame, boxValidMoves, boxReturn, nonBoxVars>>

\* The loop ends: displayGameOver, saveGame, then the wait for a keypress.
BoxGameOver ==
    /\ boxPc = "loop"
    /\ isGameOver(boxGame)
    /\ boxPc' = "waitkey"
    /\ UNCHANGED <<boxScreen, boxCurrentGame, boxGame, boxValidMoves, boxReturn, nonBoxVars>>

\* Any key: cleanupScreen(); gameState.clearGame(); the function returns.
BoxAnyKey ==
    /\ boxPc = "waitkey"
    /\ boxScreen' = FALSE
    /\ boxCurrentGame' = FALSE
    /\ boxPc' = "returned"
    /\ boxReturn' = "game-over"
    /\ UNCHANGED <<boxGame, boxValidMoves, nonBoxVars>>

InitTextbox == Init /\ mode = "human-ai"

NextTextbox ==
    \/ BoxBegin
    \/ BoxHumanTurn
    \/ \E input \in HumanInputs : BoxSubmit(input)
    \/ BoxQuitKey
    \/ \E key \in {"y", "n", "escape"} : BoxConfirmKey(key)
    \/ \E move \in AllSan : BoxAgentTurn(move)
    \/ BoxGameOver
    \/ BoxAnyKey

SpecTextbox == InitTextbox /\ [][NextTextbox]_vars

\* --------------------------------- the move prompt under the key handlers
\* src/unnamed/part_007 promptForMove on the screen of ui/board-renderer.ts.
\* Three kinds of listener receive each keypress of the screen, in the order
\* they were registered: globalKeyHandler, the keypressHandler of the prompt
\* and the confirmHandler of each confirmQuit still pending.  A listener
\* registered while a keypress is delivered does not receive that keypress.
nonPromptVars == <<mode, playerColor, currentTurn, lastInput, retries, toolCalls,
                   responseText, workingMemory, memStore, turnStartLen, saved, logged,
                   message, heldVars, sessionVars, resultVars, engineVars, cliVars,
                   memoryVars, persistVars, boxVars>>

\* A keypress as blessed reports it: key.name, key.ctrl, and ch, the
\* character typed ("" when there is none).
Key(name, ch, ctrl) == [name |-> name, ch |-> ch, ctrl |-> ctrl]

\* The keys pressed: letters and a digit, Enter, Backspace, Tab, Ctrl+C, and
\* ESC, reported with its control character (written ^[) or with none.
PromptKeys ==
    {Key("q", "q", FALSE), Key("y", "y", FALSE), Key("n", "n", FALSE),
     Key("e", "e", FALSE), Key("4", "4", FALSE),
     Key("enter", "\r", FALSE), Key("backspace", "", FALSE), Key("tab", "\t", FALSE),
     Key("c", "", TRUE), Key("escape", "", FALSE), Key("escape", "^[", FALSE)}

\* (key.name === 'c' && key.ctrl) || key.name === 'q' || key.name === 'escape'
IsQuitKey(key) == (key.name = "c" /\ key.ctrl) \/ key.name = "q" \/ key.name = "escape"

\* confirmHandler: key.name === 'y' || ch === 'y' || ch === 'Y'
AnswersYes(key) == key.name = "y" \/ key.ch \in {"y", "Y"}

\* confirmHandler: key.name === 'n' || ch === 'n' || ch === 'N' ||
\* key.name === 'escape', tested after the Y branch.
AnswersNo(key) ==
    ~AnswersYes(key) /\ (key.name = "n" \/ key.ch \in {"n", "N"} \/ key.name = "escape")

\* humanVsAIGame reaches the human's turn and calls promptForMove: the
\* buffer is emptied, the input box shown and focused, the valid moves
\* displayed, keypressHandler registered.
PromptForMove ==
    /\ pc = "loop"
    /\ ~isGameOver(game)
    /\ getTurn(game) = playerColor
    /\ validMoves' = getValidMoves(game)
    /\ pc' = "prompt"
    /\ screen' = TRUE
    /\ inputBuffer' = <<>>
    /\ focused' = "input"
    /\ statusContent' = "moves"
    /\ UNCHANGED <<game, outcome, resolvedFrom, applied, confirmHandlers, lastKey,
                   nonPromptVars>>

\* keypressHandler of promptForMove: nothing unless the input box has the
\* focus; Enter submits the trimmed buffer when it is a valid move and
\* otherwise shows the invalid-move message and empties the buffer;
\* Backspace drops the last character; any other key with a character and
\* without ctrl or meta adds it to the buffer.
keypressHandler(key, buffer, focus, moves) ==
    IF focus # "input"
    THEN [buffer |-> buffer, submit |-> Null, invalid |-> FALSE]
    ELSE IF key.name = "enter"
    THEN IF Accepts(moves, trim(buffer))
         THEN [buffer |-> buffer, submit |-> trim(buffer), invalid |-> FALSE]
         ELSE [buffer |-> <<>>, submit |-> Null, invalid |-> TRUE]
    ELSE IF key.name = "backspace"
    THEN [buffer |-> SubSeq(buffer, 1, Len(buffer) - 1), submit |-> Null, invalid |-> FALSE]
    ELSE IF key.ch # "" /\ ~key.ctrl
    THEN [buffer |-> Append(buffer, key.ch), submit |-> Null, invalid |-> FALSE]
    ELSE [buffer |-> buffer, submit |-> Null, invalid |-> FALSE]

\* globalKeyHandler on Tab: from the input box to the memory box, and back
\* when the input box is visible and active.
FocusAfterTab(key, focus, prompting) ==
    IF key.name # "tab" THEN focus
    ELSE IF focus = "input" /\ prompting THEN "memory"
    ELSE IF focus = "memory" /\ prompting THEN "input"
    ELSE focus

\* One keypress while the prompt is open.  globalKeyHandler: a quit key
\* calls confirmQuit (the content of statusBox is saved, the question shown,
\* a confirmHandler registered), Tab moves the focus.  Each confirmHandler
\* registered before the keypress: Y resolves true, and globalKeyHandler then
\* runs cleanupScreen() and process.exit(0); N or ESC restores the content
\* it saved and resolves false.  keypressHandler: as above; a submitted move
\* resolves the prompt and humanVsAIGame executes it.
PromptKeypress(key) ==
    /\ pc = "prompt"
    /\ screen
    /\ IsQuitKey(key) => Len(confirmHandlers) < MaxConfirms
    /\ LET pending == confirmHandlers
           opened == IF IsQuitKey(key) THEN <<statusContent>> ELSE <<>>
           answered == pending # <<>> /\ (AnswersYes(key) \/ AnswersNo(key))
           exits == pending # <<>> /\ AnswersYes(key)
           focus == FocusAfterTab(key, focused, TRUE)
           typed == keypressHandler(key, inputBuffer, focus, validMoves)
           shown == IF typed.invalid THEN "invalid"
                    ELSE IF pending # <<>> /\ AnswersNo(key) THEN pending[Len(pending)]
                    ELSE IF IsQuitKey(key) THEN "prompt"
                    ELSE statusContent
       IN  /\ Len(typed.buffer) <= MaxBuffer
           /\ lastKey' = IF pending # <<>> /\ AnswersNo(key) THEN "declined"
                          ELSE IF exits THEN "confirmed"
                          ELSE "other"
           /\ confirmHandlers' = IF answered THEN opened ELSE pending \o opened
           /\ inputBuffer' = typed.buffer
           /\ IF exits
              THEN /\ pc' = "exited"
                   /\ screen' = FALSE
                   /\ UNCHANGED <<game, outcome, resolvedFrom, applied, statusContent, focused>>
              ELSE IF typed.submit # Null
              THEN /\ LET result == executeMove(game, typed.submit)
                      IN  /\ game' = result.game
                          /\ applied' = applied + Count(result)
                          /\ outcome' = IF result.success THEN "human" ELSE "human-error"
                   /\ resolvedFrom' = game
                   /\ pc' = "loop"
                   /\ focused' = "memory"
                   /\ statusContent' = "status"
                   /\ UNCHANGED screen
              ELSE /\ statusContent' = shown
                   /\ focused' = IF typed.invalid THEN "input" ELSE focus
                   /\ UNCHANGED <<game, outcome, resolvedFrom, applied, pc, screen>>
    /\ UNCHANGED <<validMoves, nonPromptVars>>

InitPrompt == Init /\ mode = "human-ai" /\ playerColor = "white"

NextPrompt ==
    \/ PromptForMove
    \/ \E key \in PromptKeys : PromptKeypress(key)

SpecPrompt == InitPrompt /\ [][NextPrompt]_vars

TypeOK ==
    /\ mode \in {"human-ai", "ai-ai"}
    /\ pc \in {"loop", "prompt", "generate", "memory", "done", "exited"}
    /\ game.turn \in {"w", "b"}

\* ------------------------------------------------------------- properties
AgentOutcomes == {"applied", "fallback-nomove", "fallback-illegal", "fallback-error"}

\* The side that commits the move at index i of the history.
SideOfPly(i) == IF i % 2 = 1 THEN "white" ELSE "black"

\* The words of a text (split at blanks).
RECURSIVE Words(_)
Words(s) ==
    IF s = <<>> THEN <<>>
    ELSE IF Head(s) = " " THEN Words(Tail(s))
    ELSE LET n == CHOOSE k \in 1..Len(s) :
                      /\ \A i \in 1..k : s[i] # " "
                      /\ (k = Len(s) \/ s[k + 1] = " ")
         IN  <<SubSeq(s, 1, n)>> \o Words(SubSeq(s, n + 1, Len(s)))

\* The move-shaped tokens of a text: its words written in move notation.
MoveTokens(s) == SelectSeq(Words(s), LAMBDA w : w \in AllSan)

\* C1: whatever the text, when the position the loop resolves from has a
\* legal move, the turn ends with exactly one move applied on that position
\* and that move is one of its legal moves.
C1_AppliedMoveIsLegal ==
    (outcome \in AgentOutcomes /\ getValidMoves(resolvedFrom) # {})
        => \E m \in getValidMoves(resolvedFrom) : game = MakeMove(resolvedFrom, m)

C1_Witness ==
    /\ outcome = "fallback-illegal"
    /\ getValidMoves(resolvedFrom) # {}
    /\ Len(game.history) = Len(resolvedFrom.history) + 1
    /\ extractMoveFromResponse(responseText) \notin getValidMoves(resolvedFrom)

\* C2: an agent turn commits exactly one move to the engine, the moves of
\* the make-move tool and the moves of the loop counted together.
C2_ExactlyOneMovePerAgentTurn ==
    (pc = "loop" /\ outcome \in AgentOutcomes) => Len(game.history) = turnStartLen + 1

\* C3: when generate throws, the loop applies one legal move for the side
\* whose turn it was when the turn started and goes on with the next turn.
C3_ThrowFallsBackForTheSideToMove ==
    outcome = "fallback-error"
        => /\ pc = "loop"
           /\ getTurn(resolvedFrom) = currentTurn
           /\ \E m \in getValidMoves(resolvedFrom) : game = MakeMove(resolvedFrom, m)

\* C4: a move committed while it is side S's turn comes from the player that
\* owns S: the human's moves from the prompt, the agent's moves (tool,
\* extracted move, fallback) only for the agent's colour.
C4_MovesComeFromTheOwner ==
    [][\A i \in (Len(game.history) + 1)..Len(game'.history) :
           SideOfPly(i) = (IF pc = "prompt" THEN playerColor ELSE AgentColor)]_vars

\* C5: after N successful executeMove calls on a new engine the side to move
\* is white when N is even and black when N is odd, failed calls not counting.
C5_TurnParity ==
    getTurn(game) = (IF applied % 2 = 0 THEN "white" ELSE "black")

C5_Witness ==
    /\ applied = 3
    /\ getTurn(game) = "black"
    /\ outcome = "fallback-illegal"

\* C6: an executeMove call that fails leaves side to move, position and
\* history as they were, and no stored working memory changes with it: a
\* failed make-move call changes nothing, and after a refused extracted move
\* the fallback plays from the position the refused move was tried on.
C6_FailedMoveChangesNothing ==
    [][/\ (pc = "generate" /\ toolCalls' = toolCalls + 1 /\ applied' = applied)
            => (game' = game /\ memStore' = memStore /\ workingMemory' = workingMemory)
       /\ (pc = "memory" /\ outcome' = "fallback-illegal")
            => /\ memStore' = memStore
               /\ \/ game' = game /\ getValidMoves(game) = {}
                  \/ \E m \in getValidMoves(game) : game' = MakeMove(game, m)]_vars

C6_Witness ==
    /\ pc = "generate"
    /\ toolCalls = 1
    /\ Len(game.history) = turnStartLen
    /\ applied = turnStartLen
    /\ memStore[AgentColor] # ""

C8_ExtractsTheExactToken ==
    (pc = "memory" /\ Len(MoveTokens(responseText)) = 1
                   /\ MoveTokens(responseText)[1] \in getValidMoves(game))
        => extractMoveFromResponse(responseText) = MoveTokens(responseText)[1]

\* C9: with no move token in the text and with an extracted move that is
\* refused alike, the agent's turn ends with one move of the current legal
\* moves applied, the side to move advanced once over the turn, and no
\* second generate.
C9_BothFailuresFallBackAlike ==
    (pc = "loop" /\ outcome \in {"fallback-nomove", "fallback-illegal"})
        => /\ \E m \in getValidMoves(resolvedFrom) : game = MakeMove(resolvedFrom, m)
           /\ Len(game.history) = turnStartLen + 1
           /\ getTurn(game) # currentTurn

\* C10: the prompt resolves only with a line that, trimmed, is one of the
\* valid moves it was given; any other line but quit leaves the game as it is
\* and asks again, however many times that happened before, and no fallback
\* move is played in the human's turn.
C10_PromptContract ==
    [][pc = "prompt"
         => /\ pc' = "loop" => (trim(lastInput') \in validMoves
                                /\ outcome' \in {"human", "human-error"})
            /\ (trim(lastInput') \notin validMoves
                /\ toLowerCase(trim(lastInput')) # QUIT)
                  => (game' = game /\ pc' = "prompt")
            /\ outcome' \notin AgentOutcomes
            /\ Len(game'.history) > Len(game.history)
                  => game' = MakeMove(game, trim(lastInput'))]_vars

C10_Witness ==
    /\ pc = "prompt"
    /\ retries = MaxRetries
    /\ lastInput # Null
    /\ trim(lastInput) \notin validMoves
    /\ Len(game.history) = turnStartLen

\* The outcomes that end an agent's iteration of the loops of part_007.
TuiAgentOutcomes == {"displayed", "fallback-error"}

\* C11: every iteration of aiVsAIGame's loop increases the number of applied
\* moves, whatever the agent answered, so the loop cannot go round without
\* progress.
C11_EveryIterationAppliesAMove ==
    (mode = "ai-ai" /\ pc = "loop" /\ outcome \in TuiAgentOutcomes)
        => Len(game.history) > turnStartLen

\* C12: the agent is invoked at most once per turn: when generate has
\* returned with no move applied the loop applies a fallback move, and it
\* does not call generate again while the position is as that invocation
\* left it.
C12_OneGeneratePerTurn ==
    [][/\ (pc = "memory" /\ pc' = "loop" /\ Len(game.history) = turnStartLen)
            => Len(game'.history) = turnStartLen + 1
       /\ (pc = "loop" /\ pc' = "generate")
            => ~(outcome \in TuiAgentOutcomes /\ Len(game.history) = turnStartLen)]_vars

\* C13: once the game is over no further turn is processed: no move is
\* executed on the engine, no generate and no prompt start; and saveGame is
\* called once, when the game is over and not before.
C13_TerminalIsAbsorbing ==
    [][/\ isGameOver(game) => (game' = game /\ applied' = applied
                               /\ (pc' # pc => pc' \notin {"generate", "prompt"}))
       /\ saved' # saved => (isGameOver(game) /\ saved = 0 /\ saved' = 1)]_vars

FallbackOutcomes == {"fallback-nomove", "fallback-illegal", "fallback-error"}

\* C14: when the fallback finds no legal move the game function raises: it
\* neither reports a fallback move as played nor goes on to the loop test
\* and the end of the game.
C14_EmptyFallbackRaises ==
    (outcome \in FallbackOutcomes /\ getValidMoves(resolvedFrom) = {})
        => (pc \notin {"loop", "done"} /\ message.kind # "fallback")

\* C15: a tool call made by an agent of one session changes no engine but
\* that session's.
C15_ToolCallsStayInTheirSession ==
    [][\A s \in Sessions :
           toolCaller' = s => \A t \in Sessions \ {s} : engines'[t] = engines[t]]_vars

\* C16: in aiVsAIGame the memory kept for white changes only in an iteration
\* that began with white to move, and then to what is stored for white; the
\* same for black.
C16_KeptMemoryFollowsTheMover ==
    [][mode = "ai-ai"
         => /\ whiteWorkingMemory' # whiteWorkingMemory
                 => /\ SideOfPly(turnStartLen + 1) = "white"
                    /\ whiteWorkingMemory' = memStore["white"]
            /\ blackWorkingMemory' # blackWorkingMemory
                 => /\ SideOfPly(turnStartLen + 1) = "black"
                    /\ blackWorkingMemory' = memStore["black"]]_vars

C16_Witness ==
    /\ mode = "ai-ai"
    /\ pc = "loop"
    /\ outcome = "displayed"
    /\ currentTurn = "black"
    /\ Len(game.history) = turnStartLen + 1
    /\ blackWorkingMemory = "plan"
    /\ whiteWorkingMemory = ""
    /\ memStore["white"] = "plan"

\* C17: when getWorkingMemory throws in an agent's turn the error is logged
\* and the turn goes on with an empty working memory: the extracted move is
\* resolved as with a successful read, the random fallback runs only for a
\* missing or refused move, and the game function goes on to the loop test.
C17_FailedMemoryReadIsHarmless ==
    [][(pc = "memory" /\ "Working Memory Retrieval" \in logged')
         => LET move == extractMoveFromResponse(responseText)
                result == executeMove(game, move)
            IN  /\ workingMemory' = ""
                /\ pc' = "loop"
                /\ (move # Null /\ result.success)
                      => (outcome' = "applied" /\ game' = result.game)
                /\ outcome' \in FallbackOutcomes
                      => (move = Null \/ ~result.success)
                /\ outcome' # "fallback-error"
                /\ "AI Turn Error" \notin logged']_vars

C17_Witness ==
    /\ pc = "loop"
    /\ "Working Memory Retrieval" \in logged
    /\ outcome = "applied"
    /\ memStore[AgentColor] = "plan"
    /\ workingMemory = ""
    /\ game = MakeMove(resolvedFrom, getLastMove(game))

\* An engine between two moves: the side to move is the one the number of
\* moves in the history calls for.
Whole(g) == g.turn = (IF Len(g.history) % 2 = 0 THEN "w" ELSE "b")

\* C18: the step that ends the process (quit typed at the prompt, or Y in
\* the quit confirmation) executes no move and finds the engine between two
\* moves, in whatever phase of the turn it comes.
C18_QuitLeavesTheEngineWhole ==
    [][(pc # "exited" /\ pc' = "exited")
         => (game' = game /\ applied' = applied /\ Whole(game')
             /\ Len(game'.history) = applied')]_vars

C18_Witness ==
    /\ pc = "exited"
    /\ ~screen
    /\ toolCalls = 1
    /\ Len(game.history) = turnStartLen + 1
    /\ currentTurn # playerColor

\* C19: under the global key handler the process exits only on a Y pressed
\* while the quit confirmation is displayed.
C19_QuitNeedsConfirmation ==
    [][(screen /\ ~screen')
         => (statusContent = "prompt" /\ confirmHandlers # <<>>)]_vars

\* C20: a turn in which the loop applied a random fallback move has printed
\* that a fallback was played and names the move that was applied; a turn
\* without that message applied the move extracted from the agent's text.
C20_FallbackIsAnnounced ==
    /\ (outcome \in FallbackOutcomes /\ game # resolvedFrom)
          => (message.kind = "fallback" /\ message.move = getLastMove(game))
    /\ (outcome \in AgentOutcomes /\ game # resolvedFrom /\ message.kind # "fallback")
          => /\ outcome = "applied"
             /\ StrippedSan(getLastMove(game))
                    = StrippedSan(extractMoveFromResponse(responseText))

C20_Witness ==
    /\ outcome = "fallback-illegal"
    /\ game # resolvedFrom
    /\ message.kind = "fallback"
    /\ message.move = getLastMove(game)
    /\ extractMoveFromResponse(responseText) # Null
    /\ StrippedSan(extractMoveFromResponse(responseText)) # StrippedSan(message.move)

\* C21: getGameId() returns, after any sequence of executeMove, loadPGN,
\* setPGNHeader and reset, the id the constructor of the engine generated.
C21_GameIdIsStable ==
    getGameId(engine) = firstGameId

\* C22: within one run of a game function at most one player-move request
\* (a generate call or a human prompt) is awaited at any time, and a request
\* is made only when none is awaited and the turn before it, if any, has
\* committed a move.
C22_OneRequestAtATime ==
    [][/\ requests' <= 1
       /\ requests' > requests =>
              /\ requests = 0
              /\ outcome # "none" => Len(game.history) > turnStartLen]_vars

C22_Witness ==
    /\ requests = 1
    /\ pc \in {"prompt", "generate"}
    /\ outcome = "none"
    /\ turnStartLen >= 1
    /\ Len(game.history) = turnStartLen

\* C23: the play command goes past the validation of --model, and creates
\* agents, only if --model is one of haiku, sonnet, opus; for any other
\* string it exits with status 1 before an agent is created.
C23_OnlyNamedModelsStartAGame ==
    (cliPc \in {"side-models", "start", "exit-0"} \/ agentsCreated # {})
        => cliOptions.model \in {"haiku", "sonnet", "opus"}

C29_MoveCountIsTheHistoryLength ==
    pc = "done" => gameResult.moveCount = Len(game.history)

C26_StartingPositionIsLevel ==
    (/\ analysis # NoAnalysis
     /\ engine.chess.board = StartBoard
     /\ engine.chess.turn = "w"
     /\ engine.chess.moveNumber = 1)
        => /\ analysis.materialBalance = 0
           /\ analysis.centerControl = [white |-> 0, black |-> 0]
           /\ analysis.developmentScore = [white |-> 0, black |-> 0]
           /\ analysis.phase = "opening"

C26_Witness ==
    /\ lastCall = "analyze-position"
    /\ engine.chess = NewChess
    /\ analysis.phase = "opening"
    /\ analysis.materialBalance = 0

\* The pieces and the queens on the board of the engine.
PiecesOnBoard == Cardinality(PiecesOn(engine.chess.board))
QueensOnBoard ==
    Cardinality({sq \in PiecesOn(engine.chess.board) :
                    engine.chess.board[sq[1]][sq[2]].type = "q"})

\* C27: detectGamePhase returns "opening" when the move number is at most
\* 10; otherwise "endgame" when at most 12 pieces are on the board, or when
\* no queen is and at most 16 pieces are; otherwise "middlegame".
C27_PhaseByMoveNumberAndPieces ==
    analysis # NoAnalysis =>
        analysis.phase =
            (IF engine.chess.moveNumber <= 10 THEN "opening"
             ELSE IF PiecesOnBoard <= 12 \/ (QueensOnBoard = 0 /\ PiecesOnBoard <= 16)
                  THEN "endgame"
             ELSE "middlegame")

C27_Witness ==
    /\ analysis.phase = "endgame"
    /\ engine.chess.moveNumber = 11
    /\ QueensOnBoard = 0
    /\ PiecesOnBoard = 16

\* C28: whenever isGameOver() is true, getGameOverReason() is one of
\* checkmate, stalemate, threefold-repetition, insufficient-material,
\* fifty-move-rule, and getWinner() is a colour exactly when the reason is
\* checkmate, the side that is not to move, and "draw" otherwise; when the
\* game is not over getWinner() is null.
C28_WinnerAndReasonAgree ==
    lastCall = "getWinner" =>
        /\ returned.isGameOver = ChessAnswers(engine.chess).isGameOver
        /\ returned.isGameOver =>
               /\ returned.reason \in {"checkmate", "stalemate", "threefold-repetition",
                                       "insufficient-material", "fifty-move-rule"}
               /\ (returned.winner \in Colors) = (returned.reason = "checkmate")
               /\ returned.reason = "checkmate" =>
                      returned.winner = (IF engine.chess.turn = "w" THEN "black" ELSE "white")
               /\ returned.reason # "checkmate" => returned.winner = "draw"
        /\ ~returned.isGameOver => returned.winner = "null"

C28_Witness ==
    /\ lastCall = "getWinner"
    /\ returned.isGameOver
    /\ returned.reason = "fifty-move-rule"
    /\ returned.winner = "draw"

EntriesOf(log, gameId, agentName) ==
    SelectSeq(log, LAMBDA a : a.entry.gameId = gameId /\ a.entry.agentName = agentName)

\* The content of a file: the entries appended to it, in order.
FileContent(log, file) == SelectSeq(log, LAMBDA a : a.file = file)

\* C31: for a fixed game id and agent name every saveWorkingMemory and
\* appendMemorySummary call appends to the same log file, so the file of any
\* entry of that game and agent holds all their entries in call order.
C31_OneLogFilePerGameAndAgent ==
    \A i \in DOMAIN memoryLog :
        LET a == memoryLog[i]
        IN  EntriesOf(FileContent(memoryLog, a.file), a.entry.gameId, a.entry.agentName)
                = EntriesOf(memoryLog, a.entry.gameId, a.entry.agentName)

\* C32: saveWorkingMemory and appendMemorySummary never pass a failure on to
\* their caller: when creating the directory or appending to the file fails,
\* logError is called and the promise of the call still resolves.
C32_SaveFailuresStayInside ==
    \A i \in DOMAIN persistCalls :
        LET c == persistCalls[i]
        IN  /\ c.settled = "resolved"
            /\ c.fault # "none" => \E k \in DOMAIN c.logged : c.logged[k].level = "error"

C32_Witness ==
    /\ \E i \in DOMAIN persistCalls :
           persistCalls[i].fault = "mkdir" /\ persistCalls[i].fn = "saveWorkingMemory"
    /\ \E i \in DOMAIN persistCalls :
           persistCalls[i].fault = "append" /\ persistCalls[i].fn = "appendMemorySummary"
    /\ memoryLog = <<>>

\* C36: in humanVsAIGame a move returned by promptForMove is always applied
\* by executeMove: the position at the executeMove call is the one whose
\* legal moves the prompt was given, so the human turn never ends in the
\* 'Error:' branch.
C36_PromptedMoveIsApplied ==
    /\ outcome # "human-error"
    /\ pc = "prompt" => validMoves = getValidMoves(game)

C36_Witness ==
    /\ outcome = "human"
    /\ mode = "human-ai"
    /\ Len(game.history) >= 3
    /\ resolvedFrom.turn = (IF playerColor = "white" THEN "w" ELSE "b")

\* C35: on every path by which humanVsAIGame returns, game over or the user
\* confirming quit during move input, cleanupScreen() and
\* gameState.clearGame() have been called: no screen and no current game
\* remain registered.
C35_ReturnLeavesNothingRegistered ==
    boxPc = "returned" => (~boxScreen /\ ~boxCurrentGame)

\* C33: while a quit confirmation is pending during a human move prompt, no
\* keypress (the quit key that opens it, the Y, N or ESC that answers it, any
\* other key) changes the move input buffer or submits a move.
C33_ConfirmationShieldsThePrompt ==
    [][(pc = "prompt" /\ (confirmHandlers # <<>> \/ confirmHandlers' # <<>>))
           => (inputBuffer' = inputBuffer /\ game' = game /\ pc' # "loop")]_vars

\* C34: after the user declines a quit confirmation with N or ESC, no
\* confirmation handler remains registered and the status box shows the
\* content it had before the confirmation was opened (not the quit
\* question), whatever quit keys and answers came before.
C34_DeclineRestoresTheScreen ==
    lastKey = "declined" => (confirmHandlers = <<>> /\ statusContent # "prompt")

====
